---- MODULE Spec2Model ----
(***************************************************************************)
(* The realtime channel client of the chat front end: the useWebSocket     *)
(* hook (frontend/src/hooks/usePerformanceOptimization.ts, lines 317-545)  *)
(* as it is driven by the Chat page (frontend/src/pages/Chat.tsx).         *)
(*                                                                         *)
(* Everything runs on one event loop, so each handler is one atomic step.  *)
(* Two handlers are split in two consecutive steps so that the state in    *)
(* between can be observed; while the second half is due (pc # 0, or    *)
(* a socket is "ERRORED") nothing else can run:                            *)
(*   - ws.onopen: the flush of the queue, then the onConnect callback;     *)
(*   - a failing socket: the browser fires the error event and then the    *)
(*     close event from the same task.                                     *)
(***************************************************************************)
EXTENDS Integers, Sequences, FiniteSets, TLC

\* ---- bounds of the model ------------------------------------------------
MaxSockets == 2        \* sockets the client creates in a run
MaxMsgs    == 2        \* messages the caller passes to send() in a run
MaxTime    == 1        \* readings of the clock: 0..MaxTime
MaxCalls   == 1        \* disconnect(), reconnect() and renders the Chat page makes on its own
MaxFrames  == 3        \* frames the sockets deliver in a run
MaxEngines == 2        \* recognition engines alive at a time
MaxSpeechCalls == 3    \* calls of the speech functions and renders of the caller's own
MaxTimers  == 2        \* restart timers of the speech session pending at a time
MaxWords   == 2        \* words the transcript holds at most
MaxEdits   == 1        \* edits of the input and of the settings the user makes in a run
MaxClock   == 2        \* readings of the clock of the voice input: 0..MaxClock
MaxClicks  == 2        \* clicks on the microphone button and restarts of the session in a run

\* the option reconnectAttempts of the hook (line 321; 5 when the caller gives
\* none): the model runs the client with a smaller maximum
reconnectAttempts == 1

Sockets == 1..MaxSockets

\* error strings of the hook
NoError        == "null"
SocketError    == "WebSocket connection error"
FailedError    == "Failed to reconnect after multiple attempts"
ConstructError == "Failed to construct 'WebSocket'"

\* message kinds the caller sends
CallerTypes == {"chat_message"}

\* frames a socket delivers: text that is no JSON, a chat_message with its
\* message record, and a message of another type
InboundKinds == {"not_json", "chat_message", "room_joined"}

VARIABLES
  url,                 \* "valid" | "invalid": whether new WebSocket(url) throws
  sock,                \* per socket slot: its life-cycle state
  sockSnap,            \* per socket: what the closure of its handlers saw (see connect)
  wire,                \* per socket: the frames the last step handed to its send(), in order
  wsRef,               \* wsRef.current: a socket slot, 0 for null
  isConnected, isConnecting, error,      \* React state of the hook
  reconnectCountRef,   \* reconnectCountRef.current
  reconnectTimeoutRef, \* "null", or the timer it holds: "pending" or "fired"
  refSnap,             \* the closure of the pending timer reconnectTimeoutRef holds
  looseTimers,         \* pending timers no handle is kept of, counted per closure
  messageQueueRef,     \* messageQueueRef.current
  sentCount,           \* per caller message: how often it was handed to a socket
  nextId,              \* number of caller messages so far
  now,                 \* the clock new Date() reads
  rendered,            \* the React state the last render saw; its callbacks close over it
  calls,               \* disconnect(), reconnect() and own renders of Chat so far
  mounted,             \* the mount effect has run
  quiet,               \* history: disconnect() was called and the caller made no call since
  failures,            \* history: unclean closes since the last open event
  autos,               \* history: sockets the reconnect timer created since the last open event
  pc,                  \* 0 when idle; s while ws.onopen of socket s is about to call onConnect
  ev,                  \* the handler or call that made the last step
  messages,            \* Chat: the transcript, each message by the number of its frame
  stale,               \* Chat: setMessages was called and the page has not rendered since
  uncaught,            \* an exception has escaped a handler
  inbox,               \* history: the kinds of the frames delivered so far, in order
  supported,           \* window.SpeechRecognition || window.webkitSpeechRecognition exists
  inline,              \* the caller passes new callback functions on every render
  isListening, transcript, interimTranscript, confidence, speechError, isSupported,
                       \* React state of useSpeechRecognition (speechError is its error)
  engine,              \* per engine: "none", "idle", "starting", "running", "stopping", "errored"
  engSnap,             \* per engine: what the closure of its handlers saw
  recognitionRef,      \* recognitionRef.current: an engine, 0 for null
  timeoutRef,          \* "null", or the timer it holds: "pending" or "done"
  timeoutSnap,         \* the closure of the pending timer timeoutRef holds
  restartTimers,       \* pending timers no handle is kept of that call startListening
  srendered,           \* the state of the speech hook the last render saw
  scalls,              \* calls of the speech functions so far
  smounted,            \* the effects of the speech hook have run
  halted,              \* history: "stop" or "abort" since the caller's last startListening
  sev,                 \* the speech handler or call that made the last step
  showWaveform, autoSend,      \* VoiceInput: props of the component
  isRecording, isProcessing,   \* VoiceInput: React state
  vrendered,           \* VoiceInput: the state the last render saw
  recordingStartTime,  \* VoiceInput: recordingStartTime.current
  recordingTimer,      \* VoiceInput: recordingTimer.current: whether it holds an interval, and
                       \* the closure of that interval
  intervals,           \* VoiceInput: the intervals that run, counted per closure
  microphone,          \* VoiceInput: microphone.current holds a connected source node
  acquiring,           \* VoiceInput: getUserMedia calls that have not settled, per closure
  processingTimers,    \* VoiceInput: due times of the pending timeouts of line 169
  clock,               \* VoiceInput: the clock Date.now() reads
  delivered,           \* history: onTranscript calls since the last startRecording
  vev,                 \* VoiceInput: the handler that made the last step
  settings,            \* Chat: the settings state
  lsSettings, lsHistory,       \* localStorage: the items gai-settings and gai-chat-history
  pageLoaded,          \* Chat: the load effect of lines 31-40 has run
  currentTranscript,   \* Chat: the text in the input
  prendered,           \* Chat: the page state the last render saw
  sockSeen,            \* Chat: per socket, the messages its onMessage closed over, if known
  edits,               \* Chat: edits of the input and of the settings so far
  pev,                 \* Chat: the handler that made the last step
  hasError, boundaryError, errorInfo, retryCount,   \* ErrorBoundary: this.state
  fallback, onError,   \* ErrorBoundary: the props fallback and onError are given
  childFaulty,         \* ErrorBoundary: the children throw when they render
  caught,              \* history: errors the boundary has caught
  onErrorCalls,        \* history: calls of props.onError
  bpc,                 \* ErrorBoundary: "idle", or "commit" while componentDidCatch is due
  bev,                 \* ErrorBoundary: the method that made the last step
  dismissed,           \* SpeechErrorHandler: React state
  errorDetails         \* SpeechErrorHandler: React state, NoDetails for null

channelVars == << url, sock, sockSnap, wire, wsRef, isConnected, isConnecting, error,
                  reconnectCountRef, reconnectTimeoutRef, refSnap, looseTimers,
                  messageQueueRef, sentCount, nextId, now, rendered, calls, mounted,
                  quiet, failures, autos, pc, ev >>

chatVars == << messages, stale, uncaught, inbox >>

speechVars == << supported, inline, isListening, transcript, interimTranscript,
                 confidence, speechError, isSupported, engine, engSnap, recognitionRef,
                 timeoutRef, timeoutSnap, restartTimers, srendered, scalls, smounted,
                 halted, sev >>

voiceVars == << showWaveform, autoSend, isRecording, isProcessing, vrendered,
                recordingStartTime, recordingTimer, intervals, microphone, acquiring,
                processingTimers, clock, delivered, vev >>

pageVars == << settings, lsSettings, lsHistory, pageLoaded, currentTranscript, prendered,
              sockSeen, edits, pev >>

boundaryVars == << hasError, boundaryError, errorInfo, retryCount, fallback, onError,
                   childFaulty, caught,
                   onErrorCalls, bpc, bev >>

handlerVars == << dismissed, errorDetails >>

uiVars == << voiceVars, pageVars, boundaryVars, handlerVars >>

vars == << channelVars, chatVars, speechVars, uiVars >>

\* The hook's mutable state as one record, so that connect, disconnect and
\* sendMessage can be composed the way the handlers call them.  ovf is set when
\* a bound of the model would be exceeded; a step that sets it is not taken.
St ==
  [ sock |-> sock, sockSnap |-> sockSnap, wire |-> [s \in Sockets |-> << >>],
    wsRef |-> wsRef,
    isConnected |-> isConnected, isConnecting |-> isConnecting, error |-> error,
    reconnectCountRef |-> reconnectCountRef,
    reconnectTimeoutRef |-> reconnectTimeoutRef, refSnap |-> refSnap,
    looseTimers |-> looseTimers,
    messageQueueRef |-> messageQueueRef, sentCount |-> sentCount, nextId |-> nextId,
    ovf |-> FALSE ]

\* What is kept of a socket that is closed, and of a timer that is not pending,
\* is reset, so that equal situations are equal states.
Commit(r) ==
  /\ ~r.ovf
  /\ sock' = r.sock
  /\ sockSnap' = [s \in Sockets |-> IF r.sock[s] \in {"NONE", "CLOSED"} THEN TRUE ELSE r.sockSnap[s]]
  /\ wire' = r.wire
  /\ wsRef' = r.wsRef
  /\ isConnected' = r.isConnected
  /\ isConnecting' = r.isConnecting
  /\ error' = r.error
  /\ reconnectCountRef' = r.reconnectCountRef
  /\ reconnectTimeoutRef' = r.reconnectTimeoutRef
  /\ refSnap' = IF r.reconnectTimeoutRef = "pending" THEN r.refSnap ELSE TRUE
  /\ looseTimers' = r.looseTimers
  /\ messageQueueRef' = r.messageQueueRef
  /\ sentCount' = r.sentCount
  /\ nextId' = r.nextId

\* ---- sockets ------------------------------------------------------------
\* readyState of a slot as the code reads it
ReadyState(k) ==
  CASE k = "CONNECTING" -> "CONNECTING"
    [] k = "OPEN" -> "OPEN"
    [] k \in {"CLOSING", "ABORTING"} -> "CLOSING"
    [] OTHER -> "CLOSED"

IsOpen(st) == st.wsRef # 0 /\ ReadyState(st.sock[st.wsRef]) = "OPEN"

\* sockets are numbered in the order new WebSocket(url) creates them
Created(sk) == Cardinality({s \in Sockets : sk[s] # "NONE"})

\* ws.close(1000, 'Manual disconnect')
CloseSocket(k) ==
  CASE k = "CONNECTING" -> "ABORTING"
    [] k = "OPEN" -> "CLOSING"
    [] OTHER -> k

\* a serialisation that stamps the frame with the time of transmission
JSONstringifyStampingNow(m) ==
  << "type", m.type, "payload", m.payload, "timestamp", now >>

\* JSON.stringify of an outbound message: the frame text, field by field
JSONstringify(m) == << "type", m.type, "payload", m.payload, "timestamp", m.timestamp >>

\* ws.send(frame) on socket s
Transmit(st, s, m) ==
  [st EXCEPT !.wire[s] = Append(@, JSONstringify(m)),
             !.sentCount = IF m.type \in CallerTypes THEN [@ EXCEPT ![m.payload] = @ + 1]
                                                     ELSE @]

\* ---- timers -------------------------------------------------------------
Pending(st) ==
  (IF st.reconnectTimeoutRef = "pending" THEN 1 ELSE 0)
    + st.looseTimers[TRUE] + st.looseTimers[FALSE]

\* a connect that opens the socket without announcing the attempt
connectUnannounced(st, snap) ==
  IF IsOpen(st) THEN st ELSE
    IF url = "invalid" THEN [st EXCEPT !.error = ConstructError, !.isConnecting = FALSE]
    ELSE IF Created(st.sock) >= MaxSockets THEN [st EXCEPT !.ovf = TRUE]
    ELSE LET s == Created(st.sock) + 1 IN
         [st EXCEPT !.sock[s] = "CONNECTING", !.sockSnap[s] = snap, !.wsRef = s,
                    !.error = NoError]

\* ---- connect (lines 338-412) --------------------------------------------
\* snap is what the closure of this connect saw at its render: TRUE when
\* neither isConnecting nor isConnected was set.  The handlers installed on the
\* new socket keep it (onConnect of Chat.tsx calls the joinRoom of that render).
connect(st, snap) ==
  IF IsOpen(st) THEN st
  ELSE
    LET st1 == [st EXCEPT !.isConnecting = TRUE, !.error = NoError] IN
    IF url = "invalid"
      THEN [st1 EXCEPT !.error = ConstructError, !.isConnecting = FALSE]
      ELSE
        IF Created(st1.sock) >= MaxSockets THEN [st1 EXCEPT !.ovf = TRUE]
        ELSE
          LET s == Created(st1.sock) + 1 IN
          [st1 EXCEPT !.sock[s] = "CONNECTING",
                      !.sockSnap[s] = snap,
                      !.wsRef = s]

\* a disconnect that also throws the waiting messages away
disconnectDroppingQueue(st) ==
  LET sk == IF st.wsRef # 0 THEN [st.sock EXCEPT ![st.wsRef] = CloseSocket(@)] ELSE st.sock
  IN [st EXCEPT !.reconnectTimeoutRef = "null", !.sock = sk, !.wsRef = 0,
                !.isConnected = FALSE, !.isConnecting = FALSE, !.reconnectCountRef = 0,
                !.messageQueueRef = << >>]

\* ---- disconnect (lines 414-428) -----------------------------------------
disconnect(st) ==
  LET sk == IF st.wsRef # 0
              THEN [st.sock EXCEPT ![st.wsRef] = CloseSocket(@)]
              ELSE st.sock
  IN [st EXCEPT !.reconnectTimeoutRef = "null",
                !.sock = sk,
                !.wsRef = 0,
                !.isConnected = FALSE,
                !.isConnecting = FALSE,
                !.reconnectCountRef = 0]

\* ---- reconnect (lines 430-434) ------------------------------------------
\* the handle of the 100 ms timer is not kept
reconnect(st, snap) ==
  LET st1 == [disconnect(st) EXCEPT !.reconnectCountRef = 0] IN
  [st1 EXCEPT !.looseTimers[snap] = @ + 1]

\* ---- sendMessage (lines 436-453) ----------------------------------------
\* id: 0 for the join_room of onConnect, else the number of the caller's message;
\* snap: TRUE when the isConnecting and isConnected this sendMessage closed over
\* are both false
sendMessage(st, type, id, snap) ==
  LET messageToSend == [type |-> type, payload |-> id, timestamp |-> now] IN
  IF IsOpen(st)
    THEN Transmit(st, st.wsRef, messageToSend)
    ELSE
      LET st1 == [st EXCEPT !.messageQueueRef = Append(@, messageToSend)] IN
      IF snap THEN connect(st1, snap) ELSE st1

\* a flush that takes the newest message first (pop() where the code has shift())
RECURSIVE FlushNewestFirst(_, _)
FlushNewestFirst(st, s) ==
  IF st.messageQueueRef = << >> THEN st
  ELSE LET n == Len(st.messageQueueRef) IN
       FlushNewestFirst([Transmit(st, s, st.messageQueueRef[n])
                           EXCEPT !.messageQueueRef = SubSeq(st.messageQueueRef, 1, n - 1)], s)

\* ---- ws.onopen (lines 348-363) ------------------------------------------
\* lines 355-360: the queue is sent head first
RECURSIVE Flush(_, _)
Flush(st, s) ==
  IF st.messageQueueRef = << >> THEN st
  ELSE Flush([Transmit(st, s, Head(st.messageQueueRef))
                EXCEPT !.messageQueueRef = Tail(st.messageQueueRef)], s)

\* an open handler that forgets to reset the attempt counter
onopenKeepingCount(st, s) ==
  Flush([st EXCEPT !.sock[s] = "OPEN",
                   !.isConnected = TRUE,
                   !.isConnecting = FALSE,
                   !.error = NoError], s)

\* an open handler that runs onConnect without having sent the queue
onopenWithoutFlush(st, s) ==
  [st EXCEPT !.sock[s] = "OPEN",
             !.isConnected = TRUE,
             !.isConnecting = FALSE,
             !.error = NoError,
             !.reconnectCountRef = 0]

\* lines 349-360
onopen(st, s) ==
  Flush([st EXCEPT !.sock[s] = "OPEN",
                   !.isConnected = TRUE,
                   !.isConnecting = FALSE,
                   !.error = NoError,
                   !.reconnectCountRef = 0], s)

\* a close handler that allows one retry too many (<= where the code has <)
oncloseOneMore(st, s, wasClean) ==
  LET st1 == [st EXCEPT !.sock[s] = "CLOSED",
                        !.isConnected = FALSE,
                        !.isConnecting = FALSE]
  IN IF wasClean THEN st1
     ELSE IF st1.reconnectCountRef <= reconnectAttempts
       THEN [st1 EXCEPT !.reconnectCountRef = @ + 1,
                        !.looseTimers = IF st1.reconnectTimeoutRef = "pending"
                                          THEN [@ EXCEPT ![st1.refSnap] = @ + 1]
                                          ELSE @,
                        !.reconnectTimeoutRef = "pending",
                        !.refSnap = st.sockSnap[s]]
       ELSE [st1 EXCEPT !.error = FailedError]

\* a close handler that retries without looking at wasClean
oncloseAlwaysRetry(st, s, wasClean) ==
  LET st1 == [st EXCEPT !.sock[s] = "CLOSED",
                        !.isConnected = FALSE,
                        !.isConnecting = FALSE]
  IN IF st1.reconnectCountRef < reconnectAttempts
       THEN [st1 EXCEPT !.reconnectCountRef = @ + 1,
                        !.looseTimers = IF st1.reconnectTimeoutRef = "pending"
                                          THEN [@ EXCEPT ![st1.refSnap] = @ + 1]
                                          ELSE @,
                        !.reconnectTimeoutRef = "pending",
                        !.refSnap = st.sockSnap[s]]
       ELSE [st1 EXCEPT !.error = FailedError]

\* ---- ws.onclose (lines 365-388) -----------------------------------------
onclose(st, s, wasClean) ==
  LET st1 == [st EXCEPT !.sock[s] = "CLOSED",
                        !.isConnected = FALSE,
                        !.isConnecting = FALSE]
  IN IF wasClean THEN st1
     ELSE IF st1.reconnectCountRef < reconnectAttempts
       THEN
         \* the handle of a timer that is still pending is overwritten
         [st1 EXCEPT !.reconnectCountRef = @ + 1,
                     !.looseTimers = IF st1.reconnectTimeoutRef = "pending"
                                       THEN [@ EXCEPT ![st1.refSnap] = @ + 1]
                                       ELSE @,
                     !.reconnectTimeoutRef = "pending",
                     !.refSnap = st.sockSnap[s]]
       ELSE [st1 EXCEPT !.error = FailedError]

\* an error handler that schedules the retry itself
onerrorRetrying(st, s) ==
  [st EXCEPT !.sock[s] = "ERRORED", !.error = SocketError, !.isConnecting = FALSE,
             !.reconnectCountRef = @ + 1,
             !.looseTimers = IF st.reconnectTimeoutRef = "pending"
                               THEN [@ EXCEPT ![st.refSnap] = @ + 1] ELSE @,
             !.reconnectTimeoutRef = "pending", !.refSnap = st.sockSnap[s]]

\* ---- ws.onerror (lines 390-395) -----------------------------------------
onerror(st, s) ==
  [st EXCEPT !.sock[s] = "ERRORED",
             !.error = SocketError,
             !.isConnecting = FALSE]

\* ---- the steps ------------------------------------------------------------
\* ==== the speech capture session: useSpeechRecognition (lines 572-746) ========
Engines == 1..MaxEngines

\* the option continuous (line 575: true when the caller gives none)
continuous == TRUE

UnsupportedBrowser == "Speech recognition is not supported in this browser"
UnsupportedStart   == "Speech recognition is not supported"
StartFailed        == "Failed to start speech recognition"

\* event.error of an error event; the first two are the ones line 649 names
ErrorKinds == {"network", "service-not-allowed", "no-speech"}

RecognitionError(kind) ==
  CASE kind = "network"             -> "Speech recognition error: network"
    [] kind = "service-not-allowed" -> "Speech recognition error: service-not-allowed"
    [] kind = "not-allowed"         -> "Speech recognition error: not-allowed"
    [] OTHER                        -> "Speech recognition error: no-speech"

\* results of a result event: a final result has a confidence, texts are
\* sequences of the words "a" and "b", the empty text included
ResultEvents ==
  { << [isFinal |-> FALSE, transcript |-> << "a" >>, confidence |-> 0] >>,
    << [isFinal |-> TRUE,  transcript |-> << "a" >>, confidence |-> 1] >>,
    << [isFinal |-> TRUE,  transcript |-> << >>,     confidence |-> 1] >>,
    << [isFinal |-> TRUE,  transcript |-> << "a" >>, confidence |-> 2],
       [isFinal |-> FALSE, transcript |-> << "b" >>, confidence |-> 0] >>,
    << [isFinal |-> TRUE,  transcript |-> << "b" >>, confidence |-> 2],
       [isFinal |-> TRUE,  transcript |-> << "a" >>, confidence |-> 1] >> }

\* the state and refs of the hook as one record; ovf as in St
Sp ==
  [ isListening |-> isListening, transcript |-> transcript,
    interimTranscript |-> interimTranscript, confidence |-> confidence,
    speechError |-> speechError, isSupported |-> isSupported,
    engine |-> engine, engSnap |-> engSnap, recognitionRef |-> recognitionRef,
    timeoutRef |-> timeoutRef, timeoutSnap |-> timeoutSnap,
    restartTimers |-> restartTimers, ovf |-> FALSE ]

\* what a render shows to the callbacks it creates
SpeechState ==
  [ isListening |-> isListening, transcript |-> transcript,
    interimTranscript |-> interimTranscript, confidence |-> confidence,
    error |-> speechError, isSupported |-> isSupported ]

\* the closure of the handlers an effect run installs: isListening, error and
\* startListening (which closes over isSupported) of that render
Closure(r) ==
  [isListening |-> r.isListening, error |-> r.error # NoError, isSupported |-> r.isSupported]

NoClosure == [isListening |-> FALSE, error |-> FALSE, isSupported |-> TRUE]

\* An engine nothing refers to and that is idle can get no event any more: it
\* is dropped; what is kept of a timer that is not pending is reset.
SpeechCommit(r) ==
  /\ ~r.ovf
  /\ isListening' = r.isListening
  /\ transcript' = r.transcript
  /\ interimTranscript' = r.interimTranscript
  /\ confidence' = r.confidence
  /\ speechError' = r.speechError
  /\ isSupported' = r.isSupported
  /\ engine' = [e \in Engines |->
                  IF r.engine[e] = "idle" /\ r.recognitionRef # e THEN "none" ELSE r.engine[e]]
  /\ engSnap' = [e \in Engines |->
                  IF r.engine[e] = "none" \/ (r.engine[e] = "idle" /\ r.recognitionRef # e)
                    THEN NoClosure ELSE r.engSnap[e]]
  /\ recognitionRef' = r.recognitionRef
  /\ timeoutRef' = r.timeoutRef
  /\ timeoutSnap' = IF r.timeoutRef = "pending" THEN r.timeoutSnap ELSE TRUE
  /\ restartTimers' = r.restartTimers

\* the timers of the session that are pending
PendingRestarts(sp) ==
  (IF sp.timeoutRef = "pending" THEN 1 ELSE 0)
    + sp.restartTimers[TRUE] + sp.restartTimers[FALSE]

\* a step that would leave more timers pending than the model holds is not taken
Capped(sp) == IF PendingRestarts(sp) > MaxTimers THEN [sp EXCEPT !.ovf = TRUE] ELSE sp

\* clearTimeout(timeoutRef.current): the handle stays in the ref
clearTimeout(ref) == IF ref = "pending" THEN "done" ELSE ref

\* recognition.stop() and recognition.abort(): the end event follows
StopEngine(k) == IF k \in {"starting", "running"} THEN "stopping" ELSE k

\* ---- the effect that makes the engine and installs its handlers (595-674) ----
InstallHandlers(sp, snap) ==
  IF supported
    THEN LET free == {e \in Engines : sp.engine[e] \in {"none", "idle"}} IN
         IF free = {} THEN [sp EXCEPT !.ovf = TRUE]
         ELSE LET e == CHOOSE x \in free : \A y \in free : x <= y IN
              [sp EXCEPT !.isSupported = TRUE,
                         !.engine = [x \in Engines |->
                                       IF x = e \/ @[x] = "idle" THEN (IF x = e THEN "idle" ELSE "none")
                                       ELSE @[x]],
                         !.engSnap[e] = snap,
                         !.recognitionRef = e]
    ELSE [sp EXCEPT !.isSupported = FALSE, !.speechError = UnsupportedBrowser]

\* a startListening that goes to the engine without looking at isSupported or
\* the ref: start() on the missing engine throws inside the try
startListeningUnguarded(sp, sup) ==
  IF sp.recognitionRef = 0
    THEN [sp EXCEPT !.speechError = StartFailed]
    ELSE IF sp.engine[sp.recognitionRef] = "idle"
      THEN [sp EXCEPT !.engine[sp.recognitionRef] = "starting"]
      ELSE [sp EXCEPT !.speechError = StartFailed]

\* ---- startListening (683-695); sup is the isSupported its closure saw --------
startListening(sp, sup) ==
  IF ~sup \/ sp.recognitionRef = 0
    THEN [sp EXCEPT !.speechError = UnsupportedStart]
    ELSE IF sp.engine[sp.recognitionRef] = "idle"
      THEN [sp EXCEPT !.engine[sp.recognitionRef] = "starting"]
      \* start() of an engine that has been started throws InvalidStateError
      ELSE [sp EXCEPT !.speechError = StartFailed]

\* ---- stopListening (697-704); lis is the isListening its closure saw ---------
stopListening(sp, lis) ==
  IF sp.recognitionRef # 0 /\ lis
    THEN [sp EXCEPT !.engine[sp.recognitionRef] = StopEngine(@),
                    !.timeoutRef = clearTimeout(@)]
    ELSE sp

\* ---- resetTranscript (706-711) -----------------------------------------------
resetTranscript(sp) ==
  [sp EXCEPT !.transcript = << >>, !.interimTranscript = << >>,
             !.confidence = 0, !.speechError = NoError]

\* ---- abortListening (713-720) ------------------------------------------------
abortListening(sp) ==
  IF sp.recognitionRef # 0
    THEN [sp EXCEPT !.engine[sp.recognitionRef] = StopEngine(@),
                    !.timeoutRef = clearTimeout(@)]
    ELSE sp

\* ---- recognition.onstart (609-613) -------------------------------------------
recognitionOnstart(sp, e) ==
  [sp EXCEPT !.engine[e] = "running", !.isListening = TRUE, !.speechError = NoError]

\* ---- recognition.onresult (615-641) ------------------------------------------
RECURSIVE FinalText(_)
FinalText(results) ==
  IF results = << >> THEN << >>
  ELSE (IF Head(results).isFinal THEN Head(results).transcript ELSE << >>)
         \o FinalText(Tail(results))

RECURSIVE InterimText(_)
InterimText(results) ==
  IF results = << >> THEN << >>
  ELSE (IF Head(results).isFinal THEN << >> ELSE Head(results).transcript)
         \o InterimText(Tail(results))

RECURSIVE MaxConfidence(_)
MaxConfidence(results) ==
  IF results = << >> THEN 0
  ELSE LET m == MaxConfidence(Tail(results)) IN
       IF Head(results).isFinal /\ Head(results).confidence > m
         THEN Head(results).confidence ELSE m

\* a handler that sets the transcript to the event's final text
recognitionOnresultOverwriting(sp, results) ==
  IF FinalText(results) # << >>
    THEN [sp EXCEPT !.transcript = FinalText(results),
                    !.interimTranscript = << >>,
                    !.confidence = MaxConfidence(results)]
    ELSE [sp EXCEPT !.interimTranscript = InterimText(results)]

recognitionOnresult(sp, results) ==
  IF FinalText(results) # << >>
    THEN [sp EXCEPT !.transcript = @ \o FinalText(results),
                    !.interimTranscript = << >>,
                    !.confidence = MaxConfidence(results)]
    ELSE [sp EXCEPT !.interimTranscript = InterimText(results)]

\* ---- recognition.onerror (643-656) -------------------------------------------
\* the timer of line 650 starts only if the closure saw isListening; one that
\* would do nothing is left out
recognitionOnerror(sp, e, kind) ==
  LET sp1 == [sp EXCEPT !.engine[e] = "errored", !.speechError = RecognitionError(kind)]
      snap == sp.engSnap[e]
  IN IF kind \in {"network", "service-not-allowed"} /\ snap.isListening
       THEN Capped([sp1 EXCEPT !.restartTimers[snap.isSupported] = @ + 1])
       ELSE sp1

\* ---- recognition.onend (658-669) ---------------------------------------------
recognitionOnend(sp, e) ==
  LET sp1 == [sp EXCEPT !.engine[e] = "idle", !.isListening = FALSE,
                        !.interimTranscript = << >>]
      snap == sp.engSnap[e]
  IN IF continuous /\ ~snap.error /\ snap.isListening
       THEN Capped([sp1 EXCEPT !.restartTimers = IF sp.timeoutRef = "pending"
                                                   THEN [@ EXCEPT ![sp.timeoutSnap] = @ + 1]
                                                   ELSE @,
                               !.timeoutRef = "pending",
                               !.timeoutSnap = snap.isSupported])
       ELSE sp1

\* ---- steps of the speech session ---------------------------------------------
\* the end event of an engine follows its error event at once
SIdle == \A e \in Engines : engine[e] # "errored"

SKeep == UNCHANGED << supported, inline, srendered, smounted, channelVars, chatVars, uiVars >>

SpeechInit ==
  /\ supported \in BOOLEAN
  /\ inline \in BOOLEAN
  /\ isListening = FALSE
  /\ transcript = << >>
  /\ interimTranscript = << >>
  /\ confidence = 0
  /\ speechError = NoError
  /\ isSupported = FALSE
  /\ engine = [e \in Engines |-> "none"]
  /\ engSnap = [e \in Engines |-> NoClosure]
  /\ recognitionRef = 0
  /\ timeoutRef = "null"
  /\ timeoutSnap = TRUE
  /\ restartTimers = [b \in BOOLEAN |-> 0]
  /\ srendered = [isListening |-> FALSE, transcript |-> << >>, interimTranscript |-> << >>,
                  confidence |-> 0, error |-> NoError, isSupported |-> FALSE]
  /\ scalls = 0
  /\ smounted = FALSE
  /\ halted = "no"
  /\ sev = [op |-> "init", arg |-> 0]

\* the effects of the first render
SpeechMount ==
  /\ ~smounted
  /\ smounted' = TRUE
  /\ SpeechCommit(InstallHandlers(Sp, Closure(srendered)))
  /\ sev' = [op |-> "mount", arg |-> 0]
  /\ UNCHANGED << supported, inline, srendered, scalls, halted, channelVars, chatVars, uiVars >>

\* a render; the effect of lines 595-674 runs again when one of its
\* dependencies changed (line 674)
SpeechRenderWith(depsChanged) ==
  /\ smounted /\ SIdle
  /\ srendered' = SpeechState
  /\ SpeechCommit(IF depsChanged THEN InstallHandlers(Sp, Closure(SpeechState)) ELSE Sp)
  /\ UNCHANGED << supported, inline, smounted, halted, channelVars, chatVars, uiVars >>

\* the render React makes because a state of the hook changed
SpeechRender ==
  /\ srendered # SpeechState
  /\ SpeechRenderWith(inline)
  /\ sev' = [op |-> "render", arg |-> 0]
  /\ UNCHANGED scalls

\* a render in which a dependency changed: the language, or callbacks the
\* caller makes anew on each of its own renders
RenderForDeps ==
  /\ scalls < MaxSpeechCalls
  /\ scalls' = scalls + 1
  /\ SpeechRenderWith(TRUE)
  /\ sev' = [op |-> "render", arg |-> 1]

StartListening ==
  /\ smounted /\ SIdle
  /\ scalls < MaxSpeechCalls
  /\ scalls' = scalls + 1
  /\ SpeechCommit(startListening(Sp, srendered.isSupported))
  /\ halted' = "no"
  /\ sev' = [op |-> "start", arg |-> 0]
  /\ SKeep

StopListening ==
  /\ smounted /\ SIdle
  /\ scalls < MaxSpeechCalls
  /\ scalls' = scalls + 1
  /\ SpeechCommit(stopListening(Sp, srendered.isListening))
  /\ halted' = IF isListening /\ srendered.isListening /\ speechError = NoError
                 THEN "stop" ELSE halted
  /\ sev' = [op |-> "stop", arg |-> 0]
  /\ SKeep

AbortListening ==
  /\ smounted /\ SIdle
  /\ scalls < MaxSpeechCalls
  /\ scalls' = scalls + 1
  /\ SpeechCommit(abortListening(Sp))
  /\ halted' = "abort"
  /\ sev' = [op |-> "abort", arg |-> 0]
  /\ SKeep

ResetTranscript ==
  /\ smounted /\ SIdle
  /\ scalls < MaxSpeechCalls
  /\ scalls' = scalls + 1
  /\ SpeechCommit(resetTranscript(Sp))
  /\ sev' = [op |-> "reset", arg |-> 0]
  /\ UNCHANGED halted
  /\ SKeep

\* the engine's events
EngineStart(e) ==
  /\ SIdle
  /\ engine[e] = "starting"
  /\ SpeechCommit(recognitionOnstart(Sp, e))
  /\ sev' = [op |-> "onstart", arg |-> 0]
  /\ UNCHANGED << scalls, halted >>
  /\ SKeep

EngineResult(e, results) ==
  /\ SIdle
  /\ engine[e] \in {"running", "stopping"}
  /\ Len(transcript) + Len(FinalText(results)) <= MaxWords
  /\ SpeechCommit(recognitionOnresult(Sp, results))
  /\ sev' = [op |-> "onresult", arg |-> results]
  /\ UNCHANGED << scalls, halted >>
  /\ SKeep

EngineError(e, kind) ==
  /\ SIdle
  /\ engine[e] \in {"starting", "running", "stopping"}
  /\ SpeechCommit(recognitionOnerror(Sp, e, kind))
  /\ sev' = [op |-> "onerror", arg |-> 0]
  /\ UNCHANGED << scalls, halted >>
  /\ SKeep

EngineEnd(e) ==
  /\ \A x \in Engines : engine[x] = "errored" => x = e
  /\ engine[e] \in {"running", "stopping", "errored"}
  /\ SpeechCommit(recognitionOnend(Sp, e))
  /\ sev' = [op |-> "onend", arg |-> 0]
  /\ UNCHANGED << scalls, halted >>
  /\ SKeep

\* the restart timer timeoutRef holds fires (665-667)
RestartFires ==
  /\ SIdle
  /\ timeoutRef = "pending"
  /\ SpeechCommit(startListening([Sp EXCEPT !.timeoutRef = "done"], timeoutSnap))
  /\ sev' = [op |-> "timer", arg |-> 0]
  /\ UNCHANGED << scalls, halted >>
  /\ SKeep

\* a timer no handle is kept of fires: the one of line 650, or one of line 665
\* whose handle was overwritten
LooseRestartFires(sup) ==
  /\ SIdle
  /\ restartTimers[sup] > 0
  /\ SpeechCommit(startListening([Sp EXCEPT !.restartTimers[sup] = @ - 1], sup))
  /\ sev' = [op |-> "timer", arg |-> 1]
  /\ UNCHANGED << scalls, halted >>
  /\ SKeep

\* ---- ws.onmessage (lines 397-404) and Chat's onMessage (Chat.tsx 57-66) ----
\* the Chat page's state the handlers write, as one record
Ch == [messages |-> messages, stale |-> stale, uncaught |-> uncaught]

\* JSON.parse(event.data): throws on text that is no JSON
JSONparse(frame) ==
  IF frame.kind = "not_json"
    THEN [ok |-> FALSE]
    ELSE [ok |-> TRUE, message |-> [type |-> frame.kind, id |-> frame.id]]

\* a handler that appends the message of every frame that parses
ChatOnMessageAnyType(ch, message) ==
  [ch EXCEPT !.messages = Append(@, message.id), !.stale = TRUE]

\* Chat.tsx 57-66: setMessages(prev => [...prev, newMessage]) for a chat_message
ChatOnMessage(ch, message) ==
  IF message.type = "chat_message"
    THEN [ch EXCEPT !.messages = Append(@, message.id), !.stale = TRUE]
    ELSE ch

\* a message handler without the try and catch
onmessageUnguarded(ch, frame) ==
  LET parsed == JSONparse(frame) IN
  IF parsed.ok THEN ChatOnMessage(ch, parsed.message)
               ELSE [ch EXCEPT !.uncaught = TRUE]

onmessage(ch, frame) ==
  LET parsed == JSONparse(frame) IN
  IF parsed.ok THEN ChatOnMessage(ch, parsed.message)
               ELSE ch       \* caught and logged (401-403)

Idle == pc = 0 /\ \A s \in Sockets : sock[s] # "ERRORED"

Snap == ~rendered.isConnecting /\ ~rendered.isConnected

ReactState == [isConnected |-> isConnected, isConnecting |-> isConnecting, error |-> error]

Keep == UNCHANGED << url, now, rendered, calls, mounted, chatVars, speechVars, uiVars >>

\* the history variables; an automatic reconnect is a firing of the timer of
\* ws.onclose (379-381) whose connect() creates a socket
History(q, f) ==
  /\ quiet' = q
  /\ failures' = f
  /\ autos' = IF ev'.op = "open" THEN 0
              ELSE IF ev'.op = "timer" /\ ev'.arg = 0 /\ Created(sock') > Created(sock)
                THEN autos + 1
                ELSE autos

\* ---- the parts of the front end around the channel and the session --------
\* a language pair stands for the settings record (the other fields are alike)
Langs == {"en", "yo"}
\* the select the user changes (the other selects are alike)
SettingKeys == {"sourceLanguage"}
SettingsRecords == [sourceLanguage : Langs, targetLanguage : Langs]
\* Chat.tsx 22-28
DefaultSettings == [sourceLanguage |-> "en", targetLanguage |-> "en"]

\* an item of localStorage: absent, the empty string, text that is no JSON, or
\* the text JSON.stringify made of a value
NoItem      == [kind |-> "none"]
EmptyItem   == [kind |-> "empty"]
CorruptItem == [kind |-> "text"]
JSONItem(v) == [kind |-> "json", value |-> v]

\* recordingTimer.current is null
NoTimer == [held |-> FALSE, lis |-> FALSE]

\* VoiceInput.tsx 26-36: the state and refs before the first render
VoiceInit ==
  /\ showWaveform \in BOOLEAN
  /\ autoSend \in BOOLEAN
  /\ isRecording = FALSE
  /\ isProcessing = FALSE
  /\ vrendered = [isRecording |-> FALSE, isProcessing |-> FALSE]
  /\ recordingStartTime = 0
  /\ recordingTimer = NoTimer
  /\ intervals = [b \in BOOLEAN |-> 0]
  /\ microphone = FALSE
  /\ acquiring = [b \in BOOLEAN |-> 0]
  /\ processingTimers = {}
  /\ clock = 0
  /\ delivered = 0
  /\ vev = [op |-> "init", arg |-> 0]

\* Chat.tsx 18-28, with what localStorage holds when the page opens: an item is
\* absent or empty, text that is no JSON, or what the page wrote there before
\* no closure of the page is known of a socket
NoSeen == [known |-> FALSE, messages |-> << >>]

PageInit ==
  /\ settings = DefaultSettings
  /\ lsSettings \in {NoItem, CorruptItem,
                     JSONItem([sourceLanguage |-> "yo", targetLanguage |-> "en"])}
  /\ lsHistory \in {EmptyItem, CorruptItem, JSONItem(<< 0 >>)}
  /\ pageLoaded = FALSE
  /\ currentTranscript = ""
  /\ prendered = [settings |-> DefaultSettings, messages |-> << >>, currentTranscript |-> ""]
  /\ sockSeen = [s \in Sockets |-> NoSeen]
  /\ edits = 0
  /\ pev = [op |-> "init", arg |-> 0]

\* SpeechErrorHandler.tsx 32-33
NoDetails == [type |-> "null", canRetry |-> FALSE, message |-> "", suggestion |-> ""]

HandlerInit ==
  /\ dismissed = FALSE
  /\ errorDetails = NoDetails

\* ErrorBoundary.tsx 20-28
BoundaryInit ==
  /\ hasError = FALSE
  /\ boundaryError = "null"
  /\ errorInfo = "null"
  /\ retryCount = 0
  /\ fallback \in BOOLEAN
  /\ onError \in BOOLEAN
  /\ childFaulty \in BOOLEAN
  /\ caught = 0
  /\ onErrorCalls = 0
  /\ bpc \in {"idle", "render"}
  /\ bev = [op |-> "init", arg |-> 0]

\* ==== the error boundary: ErrorBoundary.tsx ==================================
\* line 18
maxRetries == 3

Errors == {"e1", "e2"}

\* this.state
BoundaryState ==
  [hasError |-> hasError, error |-> boundaryError, errorInfo |-> errorInfo,
   retryCount |-> retryCount]

\* lines 30-35
getDerivedStateFromError(b, e) == [b EXCEPT !.hasError = TRUE, !.error = e]

\* lines 37-41: errorInfo is the component stack of the error
componentDidCatch(b, e) == [b EXCEPT !.error = e, !.errorInfo = << "stack", e >>]

\* a retry that does not look at the count
handleRetryUnbounded(b) ==
  [b EXCEPT !.hasError = FALSE, !.error = "null", !.errorInfo = "null",
            !.retryCount = @ + 1]

\* lines 49-58
handleRetry(b) ==
  IF b.retryCount < maxRetries
    THEN [b EXCEPT !.hasError = FALSE, !.error = "null", !.errorInfo = "null",
                   !.retryCount = @ + 1]
    ELSE b

BoundaryCommit(b) ==
  /\ hasError' = b.hasError
  /\ boundaryError' = b.error
  /\ errorInfo' = b.errorInfo
  /\ retryCount' = b.retryCount

BKeep == UNCHANGED << channelVars, chatVars, speechVars, voiceVars, pageVars, handlerVars >>

\* the children are fixed or broken by what happens outside the boundary
ChildChanges ==
  /\ bpc = "idle"
  /\ childFaulty' = ~childFaulty
  /\ bpc' = IF hasError THEN "idle" ELSE "render"
  /\ bev' = [op |-> "change", arg |-> 0]
  /\ UNCHANGED << hasError, boundaryError, errorInfo, retryCount, caught, onErrorCalls,
                  fallback, onError >>
  /\ BKeep

\* render() (60-114) shows the children when there is no error; a child that
\* throws while it renders makes React call getDerivedStateFromError
ChildrenRender(e) ==
  /\ bpc = "render"
  /\ IF hasError \/ ~childFaulty
       THEN /\ bpc' = "idle"
            /\ UNCHANGED << hasError, boundaryError, errorInfo, retryCount, caught >>
       ELSE /\ caught' = caught + 1
            /\ BoundaryCommit(getDerivedStateFromError(BoundaryState, e))
            /\ bpc' = "commit"
  /\ bev' = [op |-> "render", arg |-> e]
  /\ UNCHANGED << childFaulty, onErrorCalls, fallback, onError >>
  /\ BKeep

\* the commit of the render that caught the error: componentDidCatch (37-47)
ComponentDidCatch ==
  /\ bpc = "commit"
  /\ BoundaryCommit(componentDidCatch(BoundaryState, boundaryError))
  /\ onErrorCalls' = IF onError THEN onErrorCalls + 1 ELSE onErrorCalls     \* line 43
  /\ bpc' = "idle"
  /\ bev' = [op |-> "didCatch", arg |-> boundaryError]
  /\ UNCHANGED << childFaulty, caught, fallback, onError >>
  /\ BKeep

\* the button "Try Again" (80-88), which render() shows when no fallback is
\* given (62-64), or any other call of the method there; the children render
\* again when the error state was cleared
HandleRetry ==
  /\ bpc = "idle"
  /\ hasError
  /\ ~fallback
  /\ BoundaryCommit(handleRetry(BoundaryState))
  /\ bpc' = IF handleRetry(BoundaryState).hasError THEN "idle" ELSE "render"
  /\ bev' = [op |-> "retry", arg |-> retryCount]
  /\ UNCHANGED << childFaulty, caught, onErrorCalls, fallback, onError >>
  /\ BKeep

\* the parts a specification does not run, at rest
VoiceAtRest == VoiceInit /\ showWaveform /\ ~autoSend
PageAtRest == PageInit /\ lsSettings = NoItem /\ lsHistory = EmptyItem
BoundaryAtRest == BoundaryInit /\ ~fallback /\ ~onError /\ ~childFaulty /\ bpc = "idle"

Init ==
  /\ url \in {"valid", "invalid"}
  /\ sock = [s \in Sockets |-> "NONE"]
  /\ sockSnap = [s \in Sockets |-> TRUE]
  /\ wire = [s \in Sockets |-> << >>]
  /\ wsRef = 0
  /\ isConnected = FALSE
  /\ isConnecting = FALSE
  /\ error = NoError
  /\ reconnectCountRef = 0
  /\ reconnectTimeoutRef = "null"
  /\ refSnap = TRUE
  /\ looseTimers = [b \in BOOLEAN |-> 0]
  /\ messageQueueRef = << >>
  /\ sentCount = [i \in 1..MaxMsgs |-> 0]
  /\ nextId = 0
  /\ now = 0
  /\ rendered = [isConnected |-> FALSE, isConnecting |-> FALSE, error |-> NoError]
  /\ calls = 0
  /\ mounted = FALSE
  /\ quiet = FALSE
  /\ failures = 0
  /\ autos = 0
  /\ pc = 0
  /\ ev = [op |-> "init", arg |-> 0]
  /\ messages = << >>
  /\ stale = FALSE
  /\ uncaught = FALSE
  /\ inbox = << >>
  /\ SpeechInit
  /\ supported /\ inline       \* the Chat page, in a browser that has the engine
  /\ VoiceAtRest /\ PageAtRest /\ BoundaryAtRest /\ HandlerInit

\* the auto-connect effect on mount (lines 512-516)
Mount ==
  /\ ~mounted
  /\ mounted' = TRUE
  /\ Commit(connect(St, Snap))
  /\ pc' = 0
  /\ ev' = [op |-> "mount", arg |-> 0]
  /\ History(quiet, failures)
  /\ UNCHANGED << url, now, rendered, calls, chatVars, speechVars, uiVars >>

\* A render of the Chat page.  Its callbacks close over the state as it is now.
\* onConnect and onMessage are new functions on every render (Chat.tsx 53-66),
\* so connect is a new function (dependencies, line 412) and the effect of
\* lines 512-520 runs again: the cleanup disconnect(), then connect().
RenderChat ==
  /\ mounted /\ Idle
  /\ rendered' = ReactState
  /\ Commit(connect(disconnect(St), ~isConnecting /\ ~isConnected))
  /\ pc' = 0
  /\ stale' = FALSE
  /\ UNCHANGED << url, now, mounted, messages, uncaught, inbox, speechVars, uiVars >>

\* the render React makes because a state of the hook or of the page changed
Render ==
  /\ (rendered # ReactState \/ stale)
  /\ RenderChat
  /\ ev' = [op |-> "render", arg |-> 0]
  /\ History(quiet, failures)
  /\ UNCHANGED calls

\* a render for a reason of the Chat page's own (a keystroke, a new message)
CoordinatorRender ==
  /\ calls < MaxCalls
  /\ calls' = calls + 1
  /\ RenderChat
  /\ ev' = [op |-> "render", arg |-> 1]
  /\ History(FALSE, failures)

\* the socket opens: ws.onopen up to the flush
OnOpen(s) ==
  /\ Idle
  /\ sock[s] = "CONNECTING"
  /\ Commit(onopen(St, s))
  /\ pc' = s
  /\ ev' = [op |-> "open", arg |-> Len(messageQueueRef)]
  /\ History(quiet, 0)
  /\ Keep

\* line 362: onConnect?.() is Chat.tsx 53-56, joinRoom(roomId) (lines 455-460)
OnConnect ==
  /\ pc # 0
  /\ Commit(sendMessage(St, "join_room", 0, sockSnap[pc]))
  /\ pc' = 0
  /\ ev' = [op |-> "onConnect", arg |-> 0]
  /\ History(quiet, failures)
  /\ Keep

\* the error event of a socket that fails; its close event follows at once
OnError(s) ==
  /\ Idle
  /\ sock[s] \in {"CONNECTING", "OPEN", "CLOSING", "ABORTING"}
  /\ Commit(onerror(St, s))
  /\ pc' = 0
  /\ ev' = [op |-> "error", arg |-> 0]
  /\ History(quiet, failures)
  /\ Keep

\* the close event.  A socket closes cleanly only when the closing handshake
\* completes, so never one that failed or was closed before it opened.
OnClose(s, wasClean) ==
  /\ pc = 0
  /\ \A t \in Sockets : sock[t] = "ERRORED" => t = s
  /\ IF wasClean THEN sock[s] \in {"OPEN", "CLOSING"}
                 ELSE sock[s] \in {"OPEN", "CLOSING", "ABORTING", "ERRORED"}
  /\ Commit(onclose(St, s, wasClean))
  /\ pc' = 0
  /\ ev' = [op |-> IF wasClean THEN "cleanClose" ELSE "uncleanClose", arg |-> 0]
  /\ History(quiet, IF wasClean THEN failures ELSE failures + 1)
  /\ Keep

\* the timer reconnectTimeoutRef holds fires (lines 379-381)
TimerFires ==
  /\ Idle
  /\ reconnectTimeoutRef = "pending"
  /\ Commit(connect([St EXCEPT !.reconnectTimeoutRef = "fired"], refSnap))
  /\ pc' = 0
  /\ ev' = [op |-> "timer", arg |-> 0]
  /\ History(quiet, failures)
  /\ Keep

\* a timer no handle is kept of fires: one of line 379 whose handle was
\* overwritten, or the one of reconnect() (line 433); both call connect
LooseTimerFires(snap) ==
  /\ Idle
  /\ looseTimers[snap] > 0
  /\ Commit(connect([St EXCEPT !.looseTimers[snap] = @ - 1], snap))
  /\ pc' = 0
  /\ ev' = [op |-> "timer", arg |-> 1]
  /\ History(quiet, failures)
  /\ Keep

\* the caller's calls, through the functions of the last render
Send(type) ==
  /\ mounted /\ Idle
  /\ nextId < MaxMsgs
  /\ Commit(sendMessage([St EXCEPT !.nextId = @ + 1], type, nextId + 1, Snap))
  /\ pc' = 0
  /\ ev' = [op |-> "send", arg |-> 0]
  /\ History(FALSE, failures)
  /\ Keep

Disconnect ==
  /\ mounted /\ Idle
  /\ Commit(disconnect(St))
  /\ pc' = 0
  /\ ev' = [op |-> "disconnect", arg |-> 0]
  /\ History(TRUE, failures)
  /\ calls < MaxCalls
  /\ calls' = calls + 1
  /\ UNCHANGED << url, now, rendered, mounted, chatVars, speechVars, uiVars >>

Reconnect ==
  /\ mounted /\ Idle
  /\ Commit(reconnect(St, Snap))
  /\ pc' = 0
  /\ ev' = [op |-> "reconnect", arg |-> 0]
  /\ History(FALSE, failures)
  /\ calls < MaxCalls
  /\ calls' = calls + 1
  /\ UNCHANGED << url, now, rendered, mounted, chatVars, speechVars, uiVars >>

\* Time passes.  Only sendMessage reads the clock, and the reading matters only
\* for a message that waits in the queue: the clock moves on once after the
\* newest message was queued.
Tick ==
  /\ Idle
  /\ now < MaxTime
  /\ messageQueueRef # << >>
  /\ messageQueueRef[Len(messageQueueRef)].timestamp = now
  /\ now' = now + 1
  /\ ev' = [op |-> "tick", arg |-> 0]
  /\ wire' = [s \in Sockets |-> << >>]
  /\ UNCHANGED << url, sock, sockSnap, wsRef, isConnected, isConnecting, error,
                  reconnectCountRef, reconnectTimeoutRef, refSnap, looseTimers,
                  messageQueueRef, sentCount, nextId, rendered, calls, mounted,
                  quiet, failures, autos, pc, chatVars, speechVars, uiVars >>

\* an open socket delivers a frame: ws.onmessage
OnMessage(s, kind) ==
  /\ Idle
  /\ sock[s] = "OPEN"
  /\ Len(inbox) < MaxFrames
  /\ inbox' = Append(inbox, kind)
  /\ LET ch == onmessage(Ch, [id |-> Len(inbox) + 1, kind |-> kind]) IN
       /\ messages' = ch.messages
       /\ stale' = ch.stale
       /\ uncaught' = ch.uncaught
  /\ ev' = [op |-> "message", arg |-> Len(inbox) + 1]
  /\ wire' = [t \in Sockets |-> << >>]
  /\ UNCHANGED << url, sock, sockSnap, wsRef, isConnected, isConnecting, error,
                  reconnectCountRef, reconnectTimeoutRef, refSnap, looseTimers,
                  messageQueueRef, sentCount, nextId, now, rendered, calls, mounted,
                  quiet, failures, autos, pc, speechVars, uiVars >>

Next ==
  \/ Mount
  \/ Render
  \/ CoordinatorRender
  \/ \E s \in Sockets : OnOpen(s)
  \/ OnConnect
  \/ \E s \in Sockets : OnError(s)
  \/ \E s \in Sockets, wasClean \in BOOLEAN : OnClose(s, wasClean)
  \/ TimerFires
  \/ \E snap \in BOOLEAN : LooseTimerFires(snap)
  \/ \E type \in CallerTypes : Send(type)
  \/ Disconnect
  \/ Reconnect
  \/ Tick

Spec == Init /\ [][Next]_vars

\* the channel as the Chat page runs it when frames come in and the user is idle
InboundNext ==
  \/ Mount
  \/ Render
  \/ \E s \in Sockets : OnOpen(s)
  \/ OnConnect
  \/ \E s \in Sockets, kind \in InboundKinds : OnMessage(s, kind)
  \/ \E s \in Sockets : OnError(s)
  \/ \E s \in Sockets, wasClean \in BOOLEAN : OnClose(s, wasClean)
  \/ TimerFires

InboundSpec == Init /\ [][InboundNext]_vars

\* the speech capture session on its own, for any caller and browser
SessionInit ==
  /\ url = "valid"
  /\ sock = [s \in Sockets |-> "NONE"]
  /\ sockSnap = [s \in Sockets |-> TRUE]
  /\ wire = [s \in Sockets |-> << >>]
  /\ wsRef = 0
  /\ isConnected = FALSE
  /\ isConnecting = FALSE
  /\ error = NoError
  /\ reconnectCountRef = 0
  /\ reconnectTimeoutRef = "null"
  /\ refSnap = TRUE
  /\ looseTimers = [b \in BOOLEAN |-> 0]
  /\ messageQueueRef = << >>
  /\ sentCount = [i \in 1..MaxMsgs |-> 0]
  /\ nextId = 0
  /\ now = 0
  /\ rendered = [isConnected |-> FALSE, isConnecting |-> FALSE, error |-> NoError]
  /\ calls = 0
  /\ mounted = FALSE
  /\ quiet = FALSE
  /\ failures = 0
  /\ autos = 0
  /\ pc = 0
  /\ ev = [op |-> "init", arg |-> 0]
  /\ messages = << >>
  /\ stale = FALSE
  /\ uncaught = FALSE
  /\ inbox = << >>
  /\ SpeechInit
  /\ VoiceAtRest /\ PageAtRest /\ BoundaryAtRest /\ HandlerInit

SpeechNext ==
  \/ SpeechMount
  \/ SpeechRender
  \/ RenderForDeps
  \/ StartListening
  \/ StopListening
  \/ AbortListening
  \/ \E e \in Engines : EngineStart(e)
  \/ \E e \in Engines, kind \in ErrorKinds : EngineError(e, kind)
  \/ \E e \in Engines : EngineEnd(e)
  \/ RestartFires
  \/ \E sup \in BOOLEAN : LooseRestartFires(sup)

SpeechSpec == SessionInit /\ [][SpeechNext]_vars

\* the session while results come in
ResultNext ==
  \/ SpeechMount
  \/ SpeechRender
  \/ StartListening
  \/ ResetTranscript
  \/ \E e \in Engines : EngineStart(e)
  \/ \E e \in Engines, results \in ResultEvents : EngineResult(e, results)
  \/ \E e \in Engines : EngineEnd(e)

ResultSpec == SessionInit /\ [][ResultNext]_vars

\* everything but the named part at rest
RestInit ==
  /\ url = "valid"
  /\ sock = [s \in Sockets |-> "NONE"]
  /\ sockSnap = [s \in Sockets |-> TRUE]
  /\ wire = [s \in Sockets |-> << >>]
  /\ wsRef = 0
  /\ isConnected = FALSE
  /\ isConnecting = FALSE
  /\ error = NoError
  /\ reconnectCountRef = 0
  /\ reconnectTimeoutRef = "null"
  /\ refSnap = TRUE
  /\ looseTimers = [b \in BOOLEAN |-> 0]
  /\ messageQueueRef = << >>
  /\ sentCount = [i \in 1..MaxMsgs |-> 0]
  /\ nextId = 0
  /\ now = 0
  /\ rendered = [isConnected |-> FALSE, isConnecting |-> FALSE, error |-> NoError]
  /\ calls = 0
  /\ mounted = FALSE
  /\ quiet = FALSE
  /\ failures = 0
  /\ autos = 0
  /\ pc = 0
  /\ ev = [op |-> "init", arg |-> 0]
  /\ messages = << >>
  /\ stale = FALSE
  /\ uncaught = FALSE
  /\ inbox = << >>

\* the error boundary around children that throw now and then
BoundaryNext ==
  \/ ChildChanges
  \/ \E e \in Errors : ChildrenRender(e)
  \/ ComponentDidCatch
  \/ HandleRetry

BoundaryStart ==
  /\ RestInit /\ SpeechInit /\ supported /\ inline /\ VoiceAtRest /\ PageAtRest
  /\ BoundaryInit /\ bpc = "render"      \* the first render of the children is due
  /\ HandlerInit

BoundarySpec == BoundaryStart /\ [][BoundaryNext]_vars

\* ==== the Chat page: Chat.tsx ================================================
\* what the user types or dictates: nothing, white space, a word
Texts == {"", " ", "hi"}

\* text.trim() is empty
IsBlank(text) == text \in {"", " "}

\* ---- storage (Chat.tsx 383-405) -------------------------------------------
\* JSON.parse of the text of an item: throws on text that is no JSON
StorageParse(item) ==
  IF item.kind = "json" THEN [threw |-> FALSE, found |-> TRUE, value |-> item.value]
                        ELSE [threw |-> TRUE, found |-> FALSE]

\* lines 384-389: stored ? JSON.parse(stored) : null
storageGetSettings(item) ==
  IF item.kind \in {"none", "empty"} THEN [threw |-> FALSE, found |-> FALSE]
                                     ELSE StorageParse(item)

\* lines 395-400: stored ? JSON.parse(stored) : []
storageGetChatHistory(item) ==
  IF item.kind \in {"none", "empty"} THEN [threw |-> FALSE, found |-> TRUE, value |-> << >>]
                                     ELSE StorageParse(item)

\* lines 390-393 and 401-404: the item holds JSON.stringify of the value
storageSetSettings(s) == JSONItem(s)
storageSetChatHistory(ms) == JSONItem(ms)

\* the state of the page as one record
Pg ==
  [ settings |-> settings, messages |-> messages, currentTranscript |-> currentTranscript,
    lsSettings |-> lsSettings, lsHistory |-> lsHistory,
    stale |-> stale, uncaught |-> uncaught, ch |-> St, sent |-> FALSE ]

PageCommit(p) ==
  /\ Commit(p.ch)
  /\ settings' = p.settings
  /\ messages' = p.messages
  /\ currentTranscript' = p.currentTranscript
  /\ lsSettings' = p.lsSettings
  /\ lsHistory' = p.lsHistory
  /\ stale' = p.stale
  /\ uncaught' = p.uncaught

\* ---- the load effect (lines 31-40) ------------------------------------------
\* an exception of storage is not caught here: it escapes the effect
loadEffect(p) ==
  LET savedSettings == storageGetSettings(p.lsSettings) IN
  IF savedSettings.threw THEN [p EXCEPT !.uncaught = TRUE]
  ELSE
    LET p1 == IF savedSettings.found
                THEN [p EXCEPT !.settings = savedSettings.value, !.stale = TRUE]
                ELSE p
        savedMessages == storageGetChatHistory(p1.lsHistory)
    IN IF savedMessages.threw
         THEN [p1 EXCEPT !.uncaught = TRUE]
         ELSE [p1 EXCEPT !.messages = savedMessages.value, !.stale = TRUE]

\* ---- updateSettings (hook, lines 500-505) and the effect of lines 98-103 ----
\* the effect runs when one of settings, isConnected and updateSettings is new.
\* updateSettings depends on sendMessage, that on connect, and that on the
\* inline onConnect and onMessage of the page: it is new on every render.
UpdateSettingsIsNew == TRUE

\* seen: settings and isConnected of the render before; cur: of this render
settingsEffect(p, seen, cur, snap) ==
  IF cur.settings # seen.settings \/ cur.isConnected # seen.isConnected \/ UpdateSettingsIsNew
    THEN IF cur.isConnected
           THEN [p EXCEPT !.ch = sendMessage(@, "update_settings", cur.settings, snap)]
           ELSE p
    ELSE p

\* ---- LanguageSettings.tsx 24-43 ----------------------------------------------
\* localSettings is the settings prop of the last render (effect of lines 20-22)
handleSettingChange(localSettings, key, value) == [localSettings EXCEPT ![key] = value]

handleLanguageSwap(localSettings) ==
  [localSettings EXCEPT !.sourceLanguage = localSettings.targetLanguage,
                        !.targetLanguage = localSettings.sourceLanguage]

\* setLocalSettings, onSettingsChange (Chat.tsx 149-151: setSettings), storage.setSettings
applySettings(p, newSettings) ==
  [p EXCEPT !.settings = newSettings, !.lsSettings = storageSetSettings(newSettings),
            !.stale = TRUE]

\* ---- handleSendMessage (lines 110-141) ----------------------------------------
\* a send that transmits first and appends only when the channel took the frame
handleSendMessageAfterTransmit(p, seen, text, id, snap) ==
  LET messageText == IF text # "" THEN text ELSE seen.currentTranscript IN
  IF IsBlank(messageText) THEN p
  ELSE
    LET out == sendMessage([p.ch EXCEPT !.nextId = id], "chat_message", id, snap)
        took == out.wire # p.ch.wire
    IN [p EXCEPT !.messages = IF took THEN Append(@, -id) ELSE @,
                 !.lsHistory = storageSetChatHistory(Append(seen.messages, -id)),
                 !.ch = out, !.sent = TRUE, !.currentTranscript = "", !.stale = TRUE]

\* seen: the page state the handler closed over; a user message stands in the
\* transcript by the negative of its number
handleSendMessage(p, seen, text, id, snap) ==
  LET messageText == IF text # "" THEN text ELSE seen.currentTranscript IN
  IF IsBlank(messageText) THEN p
  ELSE
    LET p1 == [p EXCEPT !.messages = Append(@, -id)]
        p2 == [p1 EXCEPT !.lsHistory = storageSetChatHistory(Append(seen.messages, -id))]
        p3 == [p2 EXCEPT !.ch = sendMessage([@ EXCEPT !.nextId = id], "chat_message", id, snap),
                         !.sent = TRUE]
    IN [p3 EXCEPT !.currentTranscript = "", !.stale = TRUE]

\* ---- onMessage (lines 57-66) ----------------------------------------------
\* seen: the messages the handler closed over: the transcript as the render
\* that made the socket saw it
pageOnMessage(p, seen, message) ==
  IF message.type = "chat_message"
    THEN [p EXCEPT !.messages = Append(@, message.id),
                   !.lsHistory = storageSetChatHistory(Append(seen, message.id)),
                   !.stale = TRUE]
    ELSE p

\* ws.onmessage (397-404) with the onMessage of the page
pageOnmessage(p, seen, frame) ==
  LET parsed == JSONparse(frame) IN
  IF parsed.ok THEN pageOnMessage(p, seen, parsed.message) ELSE p

\* the closures of the sockets after a step of a render that saw the messages
\* seen: a socket the step created has the onMessage of that render
Closures(sk, seen) ==
  [s \in Sockets |->
     IF sk[s] \notin {"CONNECTING", "OPEN"} THEN NoSeen
     ELSE IF sock[s] = "NONE" THEN [known |-> TRUE, messages |-> seen]
     ELSE sockSeen[s]]

\* ---- the steps of the page ------------------------------------------------
PKeep == UNCHANGED << url, now, calls, inbox, speechVars, voiceVars, boundaryVars, handlerVars >>

PageIdle == mounted /\ Idle /\ ~uncaught

\* the effects of the first commit, in the order of the hooks: the load effect,
\* the auto-connect effect of the channel, the settings effect (not connected).
\* An exception that escapes an effect takes the page down.
PageMount ==
  /\ ~mounted /\ ~pageLoaded
  /\ pageLoaded' = TRUE
  /\ LET p == loadEffect(Pg) IN
       IF p.uncaught
         THEN /\ PageCommit(p)
              /\ mounted' = FALSE
         ELSE /\ PageCommit([p EXCEPT !.ch = connect(@, Snap)])
              /\ mounted' = TRUE
  /\ sockSeen' = Closures(sock', prendered.messages)
  /\ pc' = 0
  /\ ev' = [op |-> "mount", arg |-> 0]
  /\ pev' = [op |-> "mount", arg |-> 0]
  /\ History(quiet, failures)
  /\ UNCHANGED << rendered, prendered, edits >>
  /\ PKeep

\* a render of the page and its effects: the cleanup disconnect() and connect()
\* of the channel (see RenderChat), then the settings effect
PageRender ==
  /\ PageIdle
  /\ (rendered # ReactState \/ stale)
  /\ rendered' = ReactState
  /\ prendered' = [settings |-> settings, messages |-> messages,
                   currentTranscript |-> currentTranscript]
  /\ LET snap == ~isConnecting /\ ~isConnected
         p == [Pg EXCEPT !.ch = connect(disconnect(@), snap), !.stale = FALSE]
     IN PageCommit(settingsEffect(p,
                     [settings |-> prendered.settings, isConnected |-> rendered.isConnected],
                     [settings |-> settings, isConnected |-> isConnected], snap))
  /\ pc' = 0
  /\ ev' = [op |-> "render", arg |-> 0]
  /\ pev' = [op |-> "render", arg |-> 0]
  /\ sockSeen' = Closures(sock', messages)
  /\ History(quiet, failures)
  /\ UNCHANGED << mounted, pageLoaded, edits >>
  /\ PKeep

\* the user changes a language or swaps the two (the panel of the last render)
SettingsChange(newSettings) ==
  /\ PageIdle
  /\ edits < MaxEdits
  /\ edits' = edits + 1
  /\ \/ newSettings = handleLanguageSwap(prendered.settings)
     \/ \E key \in SettingKeys, value \in Langs :
          /\ value # prendered.settings[key]
          /\ newSettings = handleSettingChange(prendered.settings, key, value)
  /\ PageCommit(applySettings(Pg, newSettings))
  /\ pc' = 0
  /\ ev' = [op |-> "settings", arg |-> 0]
  /\ pev' = [op |-> "settings", arg |-> newSettings, connected |-> isConnected]
  /\ History(quiet, failures)
  /\ UNCHANGED << rendered, prendered, sockSeen, mounted, pageLoaded >>
  /\ PKeep

\* line 260: the user edits the input, which is enabled while the page shows
\* the channel connected (line 268)
Type(text) ==
  /\ PageIdle
  /\ edits < MaxEdits
  /\ edits' = edits + 1
  /\ rendered.isConnected
  /\ text # currentTranscript
  /\ PageCommit([Pg EXCEPT !.currentTranscript = text, !.stale = TRUE])
  /\ pc' = 0
  /\ ev' = [op |-> "type", arg |-> 0]
  /\ pev' = [op |-> "type", arg |-> text]
  /\ History(quiet, failures)
  /\ UNCHANGED << rendered, prendered, sockSeen, mounted, pageLoaded >>
  /\ PKeep

\* lines 143-147: the voice input hands over a final transcript
HandleVoiceTranscript(text) ==
  /\ PageIdle
  /\ edits < MaxEdits
  /\ edits' = edits + 1
  /\ text # ""
  /\ PageCommit([Pg EXCEPT !.currentTranscript = text, !.stale = TRUE])
  /\ pc' = 0
  /\ ev' = [op |-> "voice", arg |-> 0]
  /\ pev' = [op |-> "voice", arg |-> text]
  /\ History(quiet, failures)
  /\ UNCHANGED << rendered, prendered, sockSeen, mounted, pageLoaded >>
  /\ PKeep

\* the Enter key (line 265) and the send button (line 274) call it without a
\* text (the speech session of the page, whose onResult calls it with one at
\* line 88, is never started)
HandleSendMessage ==
  /\ PageIdle
  /\ rendered.isConnected
  /\ nextId < MaxMsgs
  /\ LET p == handleSendMessage(Pg, prendered, "", nextId + 1, Snap) IN
       /\ PageCommit(p)
       /\ pev' = [op |-> "send", arg |-> prendered.currentTranscript, sent |-> p.sent]
  /\ pc' = 0
  /\ ev' = [op |-> "send", arg |-> 0]
  /\ sockSeen' = Closures(sock', prendered.messages)
  /\ History(FALSE, failures)
  /\ UNCHANGED << rendered, prendered, mounted, pageLoaded, edits >>
  /\ PKeep

\* an open socket delivers a chat_message frame: ws.onmessage with the
\* onMessage of the render that made the socket
PageOnMessage(s) ==
  /\ PageIdle
  /\ sock[s] = "OPEN"
  /\ sockSeen[s].known
  /\ Len(inbox) < MaxMsgs
  /\ inbox' = Append(inbox, "chat_message")
  /\ LET p == pageOnmessage(Pg, sockSeen[s].messages,
                            [id |-> Len(inbox) + 1, kind |-> "chat_message"])
     IN PageCommit(p)
  /\ pc' = 0
  /\ ev' = [op |-> "message", arg |-> Len(inbox) + 1]
  /\ pev' = [op |-> "message", arg |-> Len(inbox) + 1]
  /\ History(quiet, failures)
  /\ UNCHANGED << rendered, prendered, sockSeen, mounted, pageLoaded, edits >>
  /\ UNCHANGED << url, now, calls, speechVars, voiceVars, boundaryVars, handlerVars >>

PageNext ==
  \/ PageMount
  \/ PageRender
  \/ \E newSettings \in SettingsRecords : SettingsChange(newSettings)
  \/ \E text \in Texts : Type(text)
  \/ HandleVoiceTranscript("hi")
  \/ HandleSendMessage
  \/ \E s \in Sockets : OnOpen(s)
  \/ OnConnect
  \/ \E s \in Sockets : OnError(s)
  \/ \E s \in Sockets, wasClean \in BOOLEAN : OnClose(s, wasClean)
  \/ TimerFires

PageStart ==
  /\ RestInit /\ SpeechInit /\ supported /\ inline /\ VoiceAtRest /\ BoundaryAtRest /\ HandlerInit
  /\ PageInit

PageSpec == PageStart /\ [][PageNext]_vars

\* the page with the chat messages the server sends
HistoryNext ==
  \/ PageNext
  \/ \E s \in Sockets : PageOnMessage(s)

HistorySpec == PageStart /\ [][HistoryNext]_vars

\* ==== the voice input: VoiceInput.tsx ========================================
\* the prop disabled (line 21): the component is run enabled
disabled == FALSE

\* the prop maxDuration (line 24: 30000 ms when the caller gives none) and the
\* delay of line 169 (500 ms), in readings of the clock: the model runs the
\* component with a shorter maximum
maxDuration == 2
processingDelay == 1

\* the state and refs of the component with those of its speech session
V ==
  [ isRecording |-> isRecording, isProcessing |-> isProcessing,
    recordingStartTime |-> recordingStartTime, recordingTimer |-> recordingTimer,
    intervals |-> intervals, microphone |-> microphone, acquiring |-> acquiring,
    processingTimers |-> processingTimers, delivered |-> delivered, sp |-> Sp ]

VoiceCommit(v) ==
  /\ SpeechCommit(v.sp)
  /\ isRecording' = v.isRecording
  /\ isProcessing' = v.isProcessing
  /\ recordingStartTime' = v.recordingStartTime
  /\ recordingTimer' = v.recordingTimer
  /\ intervals' = v.intervals
  /\ microphone' = v.microphone
  /\ acquiring' = v.acquiring
  /\ processingTimers' = v.processingTimers
  /\ delivered' = v.delivered

\* what a render of the component shows to the callbacks it creates
VoiceState == [isRecording |-> isRecording, isProcessing |-> isProcessing]

SpeechStateOf(sp) ==
  [ isListening |-> sp.isListening, transcript |-> sp.transcript,
    interimTranscript |-> sp.interimTranscript, confidence |-> sp.confidence,
    error |-> sp.speechError, isSupported |-> sp.isSupported ]

\* lines 124-132: setInterval; the handle goes to recordingTimer.current, and
\* the handle that was there is lost.  lis is the isListening the callback's
\* handleStopRecording closed over.
startTimer(v, lis) ==
  [v EXCEPT !.intervals[lis] = @ + 1, !.recordingTimer = [held |-> TRUE, lis |-> lis]]

\* ---- handleStopRecording (141-172) -------------------------------------------
\* lis: the isListening its stopListening closed over.  updateAudioLevel (85-95)
\* returns at once, because the isRecording it closed over is false, so no
\* animation frame is ever requested and lines 154-157 find none.
handleStopRecording(v, lis) ==
  LET v1 == [v EXCEPT !.isRecording = FALSE, !.isProcessing = TRUE,
                      !.sp = stopListening(@, lis)]
      v2 == IF v1.recordingTimer.held
              THEN [v1 EXCEPT !.intervals[v1.recordingTimer.lis] = @ - 1,
                              !.recordingTimer = NoTimer]
              ELSE v1
  IN [v2 EXCEPT !.microphone = FALSE,
                !.processingTimers = @ \cup {clock + processingDelay}]

\* ---- handleStartRecording (98-138), up to the await -----------------------
\* seen: isSupported, isProcessing and isListening of the render that made it
handleStartRecording(v, seen) ==
  IF ~seen.isSupported \/ disabled \/ seen.isProcessing THEN v
  ELSE
    LET v1 == [v EXCEPT !.isRecording = TRUE, !.recordingStartTime = clock,
                        !.delivered = 0,
                        !.sp = startListening(@, seen.isSupported)]
    IN IF showWaveform THEN [v1 EXCEPT !.acquiring[seen.isListening] = @ + 1]
                       ELSE startTimer(v1, seen.isListening)

\* lines 111-132: getUserMedia settles.  The analyser exists when showWaveform
\* is set (effect of lines 67-82); a rejection is caught and logged.
afterGetUserMedia(v, lis, granted) ==
  LET v1 == [v EXCEPT !.acquiring[lis] = @ - 1]
      v2 == IF granted /\ showWaveform THEN [v1 EXCEPT !.microphone = TRUE] ELSE v1
  IN startTimer(v2, lis)

\* lines 48-55: the onResult the component gives to the session
voiceOnResult(v, lis, isFinal) ==
  IF isFinal
    THEN LET v1 == [v EXCEPT !.delivered = @ + 1] IN
         IF autoSend THEN handleStopRecording(v1, lis) ELSE v1
    ELSE v

\* lines 56-59: the onError the component gives to the session
voiceOnError(v, lis) == handleStopRecording(v, lis)

\* ---- the steps of the voice input ------------------------------------------
voiceVarsButEvent == << showWaveform, autoSend, isRecording, isProcessing, vrendered,
                        recordingStartTime, recordingTimer, intervals, microphone,
                        acquiring, processingTimers, clock, delivered >>

VKeep2 == UNCHANGED << supported, inline, smounted, channelVars, chatVars, pageVars,
                       boundaryVars, handlerVars >>

\* what the engines report while the component records: an interim result and
\* a final one; a transient error and another one
VoiceResults ==
  { << [isFinal |-> FALSE, transcript |-> << "a" >>, confidence |-> 0] >>,
    << [isFinal |-> TRUE,  transcript |-> << "a" >>, confidence |-> 1] >> }

VoiceErrors == {"network", "no-speech"}

VIdle == smounted /\ SIdle

VKeep == UNCHANGED << supported, inline, smounted, showWaveform, autoSend,
                      channelVars, chatVars, pageVars, boundaryVars, handlerVars >>

\* a render of the component: its callbacks are new functions, so the effect of
\* the session (595-674) makes a new engine and installs the handlers of this
\* render on it
Rerender(v) ==
  /\ VoiceCommit([v EXCEPT !.sp = InstallHandlers(@, Closure(SpeechStateOf(v.sp)))])
  /\ srendered' = SpeechStateOf(v.sp)
  /\ vrendered' = [isRecording |-> v.isRecording, isProcessing |-> v.isProcessing]

\* the render React makes after a timer, a promise or an engine event changed
\* the state
VoiceRender ==
  /\ VIdle
  /\ (srendered # SpeechState \/ vrendered # VoiceState)
  /\ Rerender(V)
  /\ vev' = [op |-> "render", arg |-> 0]
  /\ sev' = [op |-> "render", arg |-> 0]
  /\ UNCHANGED << scalls, halted, clock >>
  /\ VKeep

\* the user clicks the button while it shows the microphone (240-242): the
\* handler of the last render runs, and React renders before the next event
ClickStart ==
  /\ VIdle
  /\ srendered.isSupported /\ ~vrendered.isRecording /\ ~(disabled \/ vrendered.isProcessing)
  /\ scalls < MaxClicks
  /\ scalls' = scalls + 1
  /\ Rerender(handleStartRecording(V, [isSupported |-> srendered.isSupported,
                                       isProcessing |-> vrendered.isProcessing,
                                       isListening |-> srendered.isListening]))
  /\ vev' = [op |-> "start", arg |-> 0]
  /\ sev' = [op |-> "start", arg |-> 0]
  /\ halted' = "no"
  /\ UNCHANGED clock
  /\ VKeep

\* the user clicks the button while it shows the stop sign
ClickStop ==
  /\ VIdle
  /\ srendered.isSupported /\ vrendered.isRecording /\ ~(disabled \/ vrendered.isProcessing)
  /\ scalls < MaxClicks
  /\ scalls' = scalls + 1
  /\ Rerender(handleStopRecording(V, srendered.isListening))
  /\ vev' = [op |-> "stop", arg |-> 0]
  /\ sev' = [op |-> "stop", arg |-> 0]
  /\ UNCHANGED << halted, clock >>
  /\ VKeep

\* the promise of getUserMedia settles and handleStartRecording goes on
GetUserMediaSettles(lis, granted) ==
  /\ VIdle
  /\ acquiring[lis] > 0
  /\ VoiceCommit(afterGetUserMedia(V, lis, granted))
  /\ vev' = [op |-> "media", arg |-> 0]
  /\ UNCHANGED << srendered, vrendered, scalls, halted, sev, clock >>
  /\ VKeep

\* the callback of an interval (125-131) finds the maximum reached
IntervalFires(lis) ==
  /\ VIdle
  /\ intervals[lis] > 0
  /\ clock - recordingStartTime >= maxDuration
  /\ VoiceCommit(handleStopRecording(V, lis))
  /\ vev' = [op |-> "interval", arg |-> 0]
  /\ UNCHANGED << srendered, vrendered, scalls, halted, sev, clock >>
  /\ VKeep

\* a timeout of line 169 fires
ProcessingEnds(due) ==
  /\ VIdle
  /\ due \in processingTimers
  /\ due <= clock
  /\ VoiceCommit([V EXCEPT !.isProcessing = FALSE, !.processingTimers = @ \ {due}])
  /\ vev' = [op |-> "timeout", arg |-> due]
  /\ UNCHANGED << srendered, vrendered, scalls, halted, sev, clock >>
  /\ VKeep

\* time passes, but not past a timer that is due
VoiceTick ==
  /\ VIdle
  /\ clock < MaxClock
  /\ \A due \in processingTimers : due > clock
  /\ ~(\E lis \in BOOLEAN : intervals[lis] > 0 /\ clock - recordingStartTime >= maxDuration)
  /\ clock' = clock + 1
  /\ vev' = [op |-> "tick", arg |-> 0]
  /\ UNCHANGED << speechVars, showWaveform, autoSend, isRecording, isProcessing, vrendered,
                  recordingStartTime, recordingTimer, intervals, microphone, acquiring,
                  processingTimers, delivered,
                  channelVars, chatVars, pageVars, boundaryVars, handlerVars >>

\* a result event of an engine: the handler of the session (615-641), which
\* calls the onResult of the render that installed it
VoiceResult(e, results) ==
  /\ VIdle
  /\ engine[e] \in {"running", "stopping"}
  /\ Len(transcript) + Len(FinalText(results)) <= MaxWords
  /\ LET isFinal == FinalText(results) # << >>
         v == [V EXCEPT !.sp = recognitionOnresult(@, results)]
     IN /\ VoiceCommit(voiceOnResult(v, engSnap[e].isListening, isFinal))
        /\ vev' = [op |-> "result",
                   arg |-> IF isFinal THEN << FinalText(results), MaxConfidence(results) >>
                                      ELSE << >>]
  /\ sev' = [op |-> "onresult", arg |-> results]
  /\ UNCHANGED << srendered, vrendered, scalls, halted, clock >>
  /\ VKeep

\* an error event of an engine: the handler of the session (643-656), which
\* calls the onError of the render that installed it
VoiceError(e, kind) ==
  /\ VIdle
  /\ engine[e] \in {"starting", "running", "stopping"}
  /\ LET v == [V EXCEPT !.sp = recognitionOnerror(@, e, kind)]
     IN VoiceCommit(voiceOnError(v, engSnap[e].isListening))
  /\ vev' = [op |-> "error", arg |-> 0]
  /\ sev' = [op |-> "onerror", arg |-> 0]
  /\ UNCHANGED << srendered, vrendered, scalls, halted, clock >>
  /\ VKeep

\* the effects of the first render: the engine of the session (595-674) and the
\* analyser (67-82)
VoiceMount ==
  /\ ~smounted
  /\ smounted' = TRUE
  /\ SpeechCommit(InstallHandlers(Sp, Closure(srendered)))
  /\ sev' = [op |-> "mount", arg |-> 0]
  /\ vev' = [op |-> "mount", arg |-> 0]
  /\ UNCHANGED << srendered, scalls, halted, voiceVarsButEvent, supported, inline,
                  channelVars, chatVars, pageVars, boundaryVars, handlerVars >>

\* the start and the end event of an engine: the handlers of the session alone
\* (the component gives no onStart and no onEnd)
VoiceEngineStart(e) ==
  /\ SIdle
  /\ engine[e] = "starting"
  /\ SpeechCommit(recognitionOnstart(Sp, e))
  /\ sev' = [op |-> "onstart", arg |-> 0]
  /\ vev' = [op |-> "onstart", arg |-> 0]
  /\ UNCHANGED << srendered, scalls, halted, voiceVarsButEvent >>
  /\ VKeep2

VoiceEngineEnd(e) ==
  /\ \A x \in Engines : engine[x] = "errored" => x = e
  /\ engine[e] \in {"running", "stopping", "errored"}
  /\ SpeechCommit(recognitionOnend(Sp, e))
  /\ sev' = [op |-> "onend", arg |-> 0]
  /\ vev' = [op |-> "onend", arg |-> 0]
  /\ UNCHANGED << srendered, scalls, halted, voiceVarsButEvent >>
  /\ VKeep2

\* the restart timers of the session (see RestartFires, LooseRestartFires),
\* counted with the calls of the user, under the bound of the session
VoiceRestartFires ==
  /\ scalls < MaxSpeechCalls
  /\ timeoutRef = "pending"
  /\ SIdle
  /\ SpeechCommit(startListening([Sp EXCEPT !.timeoutRef = "done"], timeoutSnap))
  /\ scalls' = scalls + 1
  /\ sev' = [op |-> "timer", arg |-> 0]
  /\ vev' = [op |-> "restart", arg |-> 0]
  /\ UNCHANGED << srendered, halted, voiceVarsButEvent >>
  /\ VKeep2

VoiceLooseRestartFires(sup) ==
  /\ scalls < MaxSpeechCalls
  /\ restartTimers[sup] > 0
  /\ SIdle
  /\ SpeechCommit(startListening([Sp EXCEPT !.restartTimers[sup] = @ - 1], sup))
  /\ scalls' = scalls + 1
  /\ sev' = [op |-> "timer", arg |-> 1]
  /\ vev' = [op |-> "restart", arg |-> 1]
  /\ UNCHANGED << srendered, halted, voiceVarsButEvent >>
  /\ VKeep2

VoiceNext ==
  \/ VoiceMount
  \/ VoiceRender
  \/ ClickStart
  \/ ClickStop
  \/ \E lis \in BOOLEAN, granted \in BOOLEAN : GetUserMediaSettles(lis, granted)
  \/ \E lis \in BOOLEAN : IntervalFires(lis)
  \/ \E due \in 0..(MaxClock + processingDelay) : ProcessingEnds(due)
  \/ VoiceTick
  \/ \E e \in Engines : VoiceEngineStart(e)
  \/ \E e \in Engines, results \in VoiceResults : VoiceResult(e, results)
  \/ \E e \in Engines, kind \in VoiceErrors : VoiceError(e, kind)
  \/ \E e \in Engines : VoiceEngineEnd(e)
  \/ VoiceRestartFires
  \/ \E sup \in BOOLEAN : VoiceLooseRestartFires(sup)

VoiceStart ==
  /\ RestInit /\ SpeechInit /\ supported /\ inline /\ PageAtRest /\ BoundaryAtRest /\ HandlerInit
  /\ VoiceInit /\ showWaveform       \* as the Chat page renders it (249-254)

VoiceSpec == VoiceStart /\ [][VoiceNext]_vars

\* ---- what the claims speak of ---------------------------------------------
PendingTimers == Pending(St)

FramesOf(q) == [i \in 1..Len(q) |-> JSONstringify(q[i])]

FrameTimestamp(f) == f[6]
FramePayload(f) == f[4]

\* how often caller message i stands in the queue
InQueue(i) == Cardinality({k \in 1..Len(messageQueueRef) : messageQueueRef[k].payload = i})

\* a step in which sendMessage runs: a call of the caller, or joinRoom from onConnect
SendStep == ev'.op \in {"send", "onConnect"}

\* ---- C1 -------------------------------------------------------------------
\* C1: the messages passed to send() while the channel was not open stand in
\* the queue in the order of the calls, and the open event of a socket hands
\* exactly the queue, head first and each message once, to that socket and
\* leaves the queue empty; every message of the caller has then gone out once.
C1_QueueFlushedInOrder ==
  [][ev'.op = "open" =>
       /\ messageQueueRef' = << >>
       /\ wire'[pc'] = FramesOf(messageQueueRef)
       /\ \A i, j \in 1..Len(messageQueueRef) :
            (i < j /\ messageQueueRef[i].payload # 0 /\ messageQueueRef[j].payload # 0)
              => messageQueueRef[i].payload < messageQueueRef[j].payload
       /\ \A i \in 1..nextId : sentCount'[i] = 1]_vars

\* an open event has just flushed two queued messages
C1_Witness ==
  /\ ev.op = "open"
  /\ ev.arg >= 2
  /\ messageQueueRef = << >>
  /\ Len(wire[pc]) >= 2

\* ---- C2 -------------------------------------------------------------------
\* C2: at every moment each message passed to send() has either been handed to
\* a socket exactly once or stands exactly once in the queue.
C2_NoLossNoDuplicate ==
  \A i \in 1..MaxMsgs :
    IF i <= nextId THEN sentCount[i] + InQueue(i) = 1
                   ELSE sentCount[i] = 0 /\ InQueue(i) = 0

\* disconnect() has just run with a message waiting, after a failed connection
C2_Witness ==
  /\ ev.op = "disconnect"
  /\ messageQueueRef # << >>
  /\ failures > 0

\* ---- C3 -------------------------------------------------------------------
\* C3 as claimed: every frame carries the time at which it is handed to the socket.
C3_StampedAtTransmit ==
  [][\A s \in Sockets : \A k \in 1..Len(wire'[s]) :
       FrameTimestamp(wire'[s][k]) = now]_vars

\* C3 (amended): every message is stamped with the time of its send() call, and
\* the flush sends it with that stamp unchanged, so a message queued at t1 and
\* flushed at t2 goes out with timestamp t1.
C3_StampedAtCall ==
  [][/\ SendStep =>
          IF IsOpen(St)
            THEN Len(wire'[wsRef]) = 1 /\ FrameTimestamp(wire'[wsRef][1]) = now
            ELSE messageQueueRef'[Len(messageQueueRef')].timestamp = now
     /\ ev'.op = "open" =>
          \A k \in 1..Len(messageQueueRef) :
            FrameTimestamp(wire'[pc'][k]) = messageQueueRef[k].timestamp]_vars

\* an open event has just flushed a message stamped earlier than now
C3_Witness ==
  /\ ev.op = "open"
  /\ \E k \in 1..Len(wire[pc]) : FrameTimestamp(wire[pc][k]) < now

\* ---- C4 -------------------------------------------------------------------
\* C4 as claimed: once disconnect() was called and the caller makes no further
\* call, no timer that fires opens a socket.
C4_NoReconnectAfterDisconnect ==
  [][(quiet /\ ev'.op = "timer") => Created(sock') = Created(sock)]_vars

\* ---- C5 -------------------------------------------------------------------
\* C5 as claimed: right after the N-th consecutive unclean close the client is
\* disconnected with the terminal error set and no timer pending.
C5_TerminalAfterNFailures ==
  (ev.op = "uncleanClose" /\ failures = reconnectAttempts)
    => (error = FailedError /\ ~isConnected /\ ~isConnecting /\ PendingTimers = 0)

\* C5 (amended): the terminal state is entered by an unclean close that finds
\* the counter at max attempts N, which takes at least N + 1 consecutive failed
\* connections; that close leaves the client disconnected with the terminal
\* error set, schedules no timer, opens no socket and leaves the counter alone.
C5_TerminalAtMaxCounter ==
  [][(ev'.op = "uncleanClose" /\ reconnectCountRef = reconnectAttempts) =>
       /\ error' = FailedError
       /\ ~isConnected' /\ ~isConnecting'
       /\ PendingTimers' = PendingTimers
       /\ reconnectTimeoutRef' = reconnectTimeoutRef
       /\ looseTimers' = looseTimers
       /\ Created(sock') = Created(sock)
       /\ reconnectCountRef' = reconnectCountRef
       /\ failures' >= reconnectAttempts + 1]_vars

\* the close that exhausts the attempts has just been handled
C5_Witness ==
  /\ ev.op = "uncleanClose"
  /\ error = FailedError
  /\ failures = reconnectAttempts + 1
  /\ PendingTimers = 0

\* ---- C6 -------------------------------------------------------------------
\* C6: the attempt counter is 0 after every open event, goes up by exactly one
\* on an unclean close that schedules a retry, is left alone by an unclean close
\* that schedules none, is 0 after disconnect() and reconnect(), and no other
\* step changes it (the effect cleanup of a render is a call of disconnect()).
C6_CounterDiscipline ==
  [][/\ ev'.op = "open" => reconnectCountRef' = 0
     /\ ev'.op = "uncleanClose" =>
          reconnectCountRef' = IF PendingTimers' > PendingTimers
                                 THEN reconnectCountRef + 1 ELSE reconnectCountRef
     /\ ev'.op \in {"disconnect", "reconnect", "render"} => reconnectCountRef' = 0
     /\ reconnectCountRef' # reconnectCountRef =>
          ev'.op \in {"open", "uncleanClose", "disconnect", "reconnect", "render"}]_vars

\* an unclean close has just scheduled a retry and counted it
C6_Witness ==
  /\ ev.op = "uncleanClose"
  /\ reconnectCountRef = 1
  /\ reconnectTimeoutRef = "pending"

\* ---- C7 -------------------------------------------------------------------
\* C7 as claimed: when the reconnect timer fires the state becomes connecting
\* with a new socket.
C7_TimerReconnects ==
  [][(ev'.op = "timer" /\ ev'.arg = 0) =>
       (isConnecting' /\ Created(sock') = Created(sock) + 1)]_vars

\* C7 (amended): an unclean close below max attempts schedules exactly one
\* reconnect and counts it; when the delay elapses connect() runs, which does
\* nothing if the socket the client holds is open by then, and otherwise makes
\* the state connecting with a new socket.
C7_TimerRunsConnect ==
  [][/\ (ev'.op = "uncleanClose" /\ reconnectCountRef < reconnectAttempts) =>
          /\ PendingTimers' = PendingTimers + 1
          /\ reconnectTimeoutRef' = "pending"
          /\ reconnectCountRef' = reconnectCountRef + 1
     /\ (ev'.op = "timer" /\ ev'.arg = 0) =>
          IF IsOpen(St)
            THEN /\ sock' = sock /\ wsRef' = wsRef
                 /\ isConnected' = isConnected /\ isConnecting' = isConnecting
                 /\ error' = error
            ELSE /\ isConnecting'
                 /\ Created(sock') = Created(sock) + 1
                 /\ sock'[wsRef'] = "CONNECTING"
                 /\ sock[wsRef'] = "NONE"]_vars

\* the reconnect timer of the first failure has just fired: counter 1, connecting
C7_Witness ==
  /\ ev.op = "timer" /\ ev.arg = 0
  /\ isConnecting
  /\ reconnectCountRef = 1
  /\ wsRef # 0 /\ sock[wsRef] = "CONNECTING"

\* ---- C8 -------------------------------------------------------------------
\* C8: a clean close schedules no reconnect, leaves the attempt counter alone
\* and leaves the client neither connected nor connecting.
C8_CleanCloseNoRetry ==
  [][ev'.op = "cleanClose" =>
       /\ reconnectCountRef' = reconnectCountRef
       /\ reconnectTimeoutRef' = reconnectTimeoutRef
       /\ looseTimers' = looseTimers
       /\ Created(sock') = Created(sock)
       /\ ~isConnected' /\ ~isConnecting']_vars

\* a clean close has just been handled while the counter was not 0
C8_Witness ==
  /\ ev.op = "cleanClose"
  /\ reconnectCountRef > 0
  /\ ~isConnected /\ ~isConnecting

\* ---- C9 -------------------------------------------------------------------
\* C9 as claimed: connect() while the held socket is open changes nothing, and
\* a second connect() has no effect of its own: it creates no socket while the
\* one of the first call is connecting or open.
C9_ConnectIdempotent ==
  [][/\ (ev'.op = "timer" /\ IsOpen(St)) =>
          /\ sock' = sock /\ wsRef' = wsRef
          /\ isConnected' = isConnected /\ isConnecting' = isConnecting
          /\ error' = error
          /\ reconnectCountRef' = reconnectCountRef
          /\ messageQueueRef' = messageQueueRef
     /\ (/\ ev'.op \in {"mount", "timer", "send", "onConnect"}
         /\ wsRef # 0
         /\ sock[wsRef] \in {"CONNECTING", "OPEN"}) =>
          Created(sock') = Created(sock)]_vars

\* ---- C10 ------------------------------------------------------------------
\* C10 as claimed: sendMessage with the held socket open hands the message to it
\* and leaves the queue alone; otherwise it appends the message to the queue and
\* calls connect() exactly when the client is neither connecting nor connected.
C10_SendContract ==
  [][SendStep =>
       IF IsOpen(St)
         THEN /\ messageQueueRef' = messageQueueRef
              /\ Len(wire'[wsRef]) = 1
              /\ FramePayload(wire'[wsRef][1])
                   = (IF ev'.op = "send" THEN nextId' ELSE 0)
         ELSE /\ Len(messageQueueRef') = Len(messageQueueRef) + 1
              /\ SubSeq(messageQueueRef', 1, Len(messageQueueRef)) = messageQueueRef
              /\ messageQueueRef'[Len(messageQueueRef')].payload
                   = (IF ev'.op = "send" THEN nextId' ELSE 0)
              /\ url = "valid" =>
                   (Created(sock') > Created(sock) <=> (~isConnecting /\ ~isConnected))]_vars

\* ---- C11 ------------------------------------------------------------------
\* C11: the open event hands the whole queue, in order, to the socket that
\* opened before anything else is sent: the join_room of onConnect is the very
\* next step, a message is handed to a socket directly only while the queue is
\* empty, and a join_room at the head of the queue is the first frame sent.
C11_FlushBeforeLaterSends ==
  [][/\ ev'.op = "open" =>
          /\ pc' # 0
          /\ messageQueueRef' = << >>
          /\ wire'[pc'] = FramesOf(messageQueueRef)
          /\ \A s \in Sockets \ {pc'} : wire'[s] = << >>
          /\ (messageQueueRef # << >> /\ messageQueueRef[1].type = "join_room")
               => wire'[pc'][1][2] = "join_room"
     /\ ev'.op = "onConnect" => ev.op = "open"
     /\ (SendStep /\ IsOpen(St)) =>
          (messageQueueRef = << >> /\ messageQueueRef' = << >>)]_vars

\* an open event has flushed queued messages to the socket the client holds,
\* and onConnect is about to send join_room on it
C11_Witness ==
  /\ ev.op = "open"
  /\ ev.arg >= 1
  /\ pc # 0 /\ wsRef = pc
  /\ Len(wire[pc]) = ev.arg

\* ---- C13 ------------------------------------------------------------------
\* C13: an error event of a socket records the error string and leaves the
\* client not connecting, and a failure to construct the socket does the same
\* with the message of the exception; neither schedules a timer nor touches the
\* attempt counter, the queue or the sockets.  The number of pending timers
\* goes up only in an unclean close (the retry) and in the caller's reconnect().
C13_ErrorAloneSchedulesNothing ==
  [][/\ ev'.op = "error" =>
          /\ error' = SocketError
          /\ ~isConnecting'
          /\ isConnected' = isConnected
          /\ reconnectCountRef' = reconnectCountRef
          /\ reconnectTimeoutRef' = reconnectTimeoutRef
          /\ looseTimers' = looseTimers
          /\ Created(sock') = Created(sock)
          /\ wsRef' = wsRef
          /\ messageQueueRef' = messageQueueRef
     /\ (url = "invalid" /\ (ev'.op \in {"mount", "timer"} \/ (ev'.op = "send" /\ Snap))) =>
          /\ error' = ConstructError
          /\ ~isConnecting' /\ ~isConnected'
          /\ reconnectCountRef' = reconnectCountRef
          /\ reconnectTimeoutRef' # "pending"
          /\ PendingTimers' <= PendingTimers
          /\ Created(sock') = 0
          /\ wsRef' = wsRef
     /\ PendingTimers' > PendingTimers => ev'.op \in {"uncleanClose", "reconnect"}]_vars

\* an error event has just been handled: error recorded, nothing scheduled yet
C13_Witness ==
  /\ ev.op = "error"
  /\ error = SocketError
  /\ ~isConnecting
  /\ PendingTimers = 0
  /\ reconnectCountRef = 0

\* ---- C12 ------------------------------------------------------------------
\* C12: a frame that is no JSON is dropped: the transcript is not touched, no
\* exception escapes the handler, and connection state, error, attempt counter,
\* queue, sockets and timers are as before; a chat_message frame that comes
\* after such a frame is appended to the transcript like any other.
C12_MalformedFrameDropped ==
  [][/\ (ev'.op = "message" /\ inbox'[Len(inbox')] = "not_json") =>
          /\ messages' = messages
          /\ stale' = stale
          /\ ~uncaught'
          /\ isConnected' = isConnected /\ isConnecting' = isConnecting
          /\ error' = error
          /\ reconnectCountRef' = reconnectCountRef
          /\ messageQueueRef' = messageQueueRef
          /\ sock' = sock /\ wsRef' = wsRef
          /\ PendingTimers' = PendingTimers
     /\ (/\ ev'.op = "message"
         /\ inbox'[Len(inbox')] = "chat_message"
         /\ \E k \in 1..Len(inbox) : inbox[k] = "not_json") =>
          (messages' = Append(messages, Len(inbox')) /\ ~uncaught')]_vars

\* a chat_message frame has been appended right after a frame that is no JSON
C12_Witness ==
  /\ ev.op = "message"
  /\ Len(inbox) >= 2
  /\ inbox[Len(inbox) - 1] = "not_json"
  /\ inbox[Len(inbox)] = "chat_message"
  /\ messages # << >>
  /\ messages[Len(messages)] = Len(inbox)
  /\ ~uncaught

\* ---- C14 ------------------------------------------------------------------
\* the numbers of the chat_message frames among the frames delivered, in order
ChatFrames(box) ==
  LET IsChat(i) == box[i] = "chat_message"
  IN SelectSeq([i \in 1..Len(box) |-> i], IsChat)

SpeechPending == PendingRestarts(Sp)

\* engines that have been started and have not ended
Active == {e \in Engines : engine[e] \in {"starting", "running", "stopping", "errored"}}

\* ---- C15 ------------------------------------------------------------------
\* C15 as claimed: in continuous mode with no error set, once stopListening()
\* was called while listening, the end event of an engine leaves the session
\* idle and schedules no restart, and no timer starts an engine.
C15_StopThenEndStaysIdle ==
  [][(continuous /\ halted = "stop" /\ speechError = NoError) =>
       /\ sev'.op = "onend" => (~isListening' /\ SpeechPending' = SpeechPending)
       /\ sev'.op = "timer" => Active' = Active]_vars

\* ---- C16 ------------------------------------------------------------------
\* C16 as claimed: in continuous mode with no error set, the end event of a
\* listening session that stopListening() did not precede schedules the restart.
C16_EndWithoutStopRestarts ==
  [][(/\ continuous /\ halted = "no" /\ speechError = NoError
      /\ isListening /\ sev'.op = "onend") =>
       SpeechPending' = SpeechPending + 1]_vars

\* ---- C18 ------------------------------------------------------------------
\* C18 as claimed: an error event with cause network or service-not-allowed in
\* a listening session schedules a restart; an error event with another cause
\* sets the error and schedules none, and neither does the end event after it.
C18_RestartOnTransientErrorOnly ==
  [][/\ (/\ sev'.op = "onerror" /\ isListening
         /\ speechError' \in {RecognitionError("network"),
                              RecognitionError("service-not-allowed")}) =>
          SpeechPending' = SpeechPending + 1
     /\ (sev'.op = "onerror" /\ speechError' = RecognitionError("no-speech")) =>
          SpeechPending' = SpeechPending
     /\ (/\ sev'.op = "onend" /\ sev.op = "onerror"
         /\ speechError = RecognitionError("no-speech")) =>
          /\ SpeechPending' = SpeechPending
          /\ ~isListening'
          /\ speechError' = speechError]_vars

\* ---- C20 ------------------------------------------------------------------
\* C17: the transcript is append-only between resets. A result event with
\* final text extends transcript by exactly that text, in the order of the
\* event's results; an event without final text replaces interimTranscript by
\* its interim text and leaves transcript and confidence alone; every other
\* step but resetTranscript() leaves transcript alone.
C17_FinalsAppendInterimReplaces ==
  [][ /\ (sev'.op = "onresult" /\ FinalText(sev'.arg) # << >>) =>
           /\ transcript' = transcript \o FinalText(sev'.arg)
           /\ interimTranscript' = << >>
           /\ confidence' = MaxConfidence(sev'.arg)
      /\ (sev'.op = "onresult" /\ FinalText(sev'.arg) = << >>) =>
           /\ interimTranscript' = InterimText(sev'.arg)
           /\ transcript' = transcript
           /\ confidence' = confidence
      /\ sev'.op \notin {"onresult", "reset"} => transcript' = transcript ]_vars

\* final texts were accumulated, then an event without final text set
\* interimTranscript
C17_Witness ==
  /\ sev.op = "onresult"
  /\ FinalText(sev.arg) = << >>
  /\ interimTranscript = InterimText(sev.arg)
  /\ Len(transcript) >= 2
  /\ confidence > 0

\* C19: in a browser without a recognition engine isSupported is false, no
\* engine exists and none is ever started; startListening() sets error to the
\* fixed message and changes nothing else, and isListening stays false.
C19_UnsupportedStartOnlySetsError ==
  [][~supported =>
       /\ ~isSupported'
       /\ ~isListening'
       /\ recognitionRef' = 0
       /\ \A e \in Engines : engine'[e] = "none"
       /\ SpeechPending' = 0
       /\ sev'.op = "mount" => speechError' = UnsupportedBrowser
       /\ sev'.op = "start" =>
            /\ speechError' = UnsupportedStart
            /\ UNCHANGED << transcript, interimTranscript, confidence, timeoutRef >>]_vars

C19_Witness ==
  /\ ~supported
  /\ smounted
  /\ sev.op = "start"
  /\ speechError = UnsupportedStart
  /\ ~isListening
  /\ ~isSupported

\* C20 as claimed: after abortListening(), until the caller calls
\* startListening() again, an end event schedules no restart and a timer that
\* fires starts no engine and changes nothing.
C20_NoRestartAfterAbort ==
  [][halted = "abort" =>
       /\ sev'.op = "onend" => SpeechPending' <= SpeechPending
       /\ sev'.op = "timer" =>
            /\ Active' = Active
            /\ isListening' = isListening
            /\ speechError' = speechError]_vars

\* the join_room frames among frames
JoinRooms(frames) == Cardinality({i \in 1..Len(frames) : frames[i][2] = "join_room"})

\* C27 as claimed: the open of a socket is followed by exactly one join_room
\* on that socket: none comes out of the queue when it opens, the onConnect
\* that follows transmits one on it, and no other step transmits one.
C27_OneJoinPerOpen ==
  [][ /\ ev'.op = "open" => JoinRooms(wire'[pc']) = 0
      /\ ev'.op = "onConnect" => JoinRooms(wire'[pc]) = 1
      /\ ev'.op \notin {"open", "onConnect"} =>
           \A s \in Sockets : JoinRooms(wire'[s]) = 0 ]_vars

\* C30: retryCount never exceeds maxRetries; handleRetry clears hasError,
\* error and errorInfo and adds one to retryCount while retryCount is below
\* maxRetries and does nothing otherwise; nothing else changes retryCount; once
\* retryCount is maxRetries, a boundary that shows an error shows it for good.
C30_BoundedRetries ==
  [][ /\ retryCount' <= maxRetries
      /\ bev'.op = "retry" =>
           IF retryCount < maxRetries
             THEN /\ ~hasError'
                  /\ boundaryError' = "null"
                  /\ errorInfo' = "null"
                  /\ retryCount' = retryCount + 1
             ELSE UNCHANGED << hasError, boundaryError, errorInfo, retryCount >>
      /\ bev'.op # "retry" => retryCount' = retryCount
      /\ (retryCount = maxRetries /\ hasError) => (hasError' /\ retryCount' = maxRetries)
    ]_vars

\* the fourth error was caught after three retries, and a further retry was
\* asked for
C30_Witness ==
  /\ retryCount = maxRetries
  /\ hasError
  /\ caught >= 4
  /\ errorInfo # "null"
  /\ bev.op = "retry"

\* ---- C28 ------------------------------------------------------------------
\* C28: storage.getSettings and storage.getChatHistory never throw to the
\* caller: for an item that is missing, empty or no JSON, getSettings returns
\* null and getChatHistory the empty list, and no exception escapes the load
\* effect that calls them.
C28_StorageNeverThrows ==
  /\ ~storageGetSettings(lsSettings).threw
  /\ ~storageGetChatHistory(lsHistory).threw
  /\ lsSettings.kind # "json" => ~storageGetSettings(lsSettings).found
  /\ lsHistory.kind # "json" => storageGetChatHistory(lsHistory).value = << >>
  /\ pageLoaded => ~uncaught

\* ---- C26 ------------------------------------------------------------------
\* how often the chat message with number i stands in queue q
Queued(q, i) ==
  Cardinality({k \in 1..Len(q) : q[k].type = "chat_message" /\ q[k].payload = i})

\* C26: a send of non-blank text appends the user message to the transcript in
\* the step that calls sendChatMessage for it, whether the channel takes the
\* frame or only queues it; no step ever removes a message from the transcript
\* (the transcript only grows at its end); a send of blank text appends
\* nothing, calls nothing and leaves the channel and the storage alone.
C26_OptimisticAppend ==
  [][ /\ Len(messages') >= Len(messages)
      /\ SubSeq(messages', 1, Len(messages)) = messages
      /\ ev'.op = "send" =>
           IF IsBlank(prendered.currentTranscript)
             THEN /\ messages' = messages
                  /\ ~pev'.sent
                  /\ nextId' = nextId
                  /\ messageQueueRef' = messageQueueRef
                  /\ \A s \in Sockets : wire'[s] = << >>
                  /\ lsHistory' = lsHistory
                  /\ sock' = sock
             ELSE /\ messages' = Append(messages, -(nextId + 1))
                  /\ pev'.sent
                  /\ nextId' = nextId + 1
                  /\ sentCount'[nextId + 1] + Queued(messageQueueRef', nextId + 1) = 1
    ]_vars

\* a user message was appended while the channel could not take it, the
\* reconnect attempts are exhausted since, and the message still stands in the
\* transcript, untransmitted
C26_Witness ==
  /\ \E i \in 1..Len(messages) : messages[i] = -1
  /\ error = FailedError
  /\ sentCount[1] = 0
  /\ Queued(messageQueueRef, 1) = 1

\* ---- C25 ------------------------------------------------------------------
\* the places of the update_settings frames among the frames handed to a socket
UpdateFrames(frames) == {i \in 1..Len(frames) : frames[i][2] = "update_settings"}

\* C25: a change of the settings persists the new record, and when the user
\* changed the record while the channel was connected and it still is, the
\* render that follows the change transmits exactly one update_settings frame,
\* which carries the new record.
C25_OneUpdatePerChange ==
  [][ /\ ev'.op = "settings" => lsSettings' = JSONItem(settings') /\ settings' = pev'.arg
      /\ (ev'.op = "render" /\ pev.op = "settings" /\ pev.connected /\ isConnected
            /\ settings # prendered.settings) =>
           \E s \in Sockets :
             /\ Cardinality(UpdateFrames(wire'[s])) = 1
             /\ \A i \in UpdateFrames(wire'[s]) : wire'[s][i][4] = settings
             /\ \A u \in Sockets \ {s} : UpdateFrames(wire'[u]) = {}
    ]_vars

\* ---- C21 ------------------------------------------------------------------
\* the engines that listen or are about to
Listening(eng) == {e \in Engines : eng[e] \in {"starting", "running"}}

\* C21: when the callback of the interval finds the elapsed time at
\* maxDuration, the stop it makes clears the recording flag and the timer,
\* enters the processing state and asks the speech session to stop: no engine
\* that was listening goes on listening.
C21_MaxDurationStops ==
  [][ vev'.op = "interval" =>
        /\ ~isRecording'
        /\ ~recordingTimer'.held
        /\ isProcessing'
        /\ \A e \in Listening(engine) : engine'[e] = "stopping"
    ]_vars

\* ---- C29 ------------------------------------------------------------------
\* C29: whenever the component is not recording, microphone.current holds no
\* connected source node, however the stop and the settling of getUserMedia
\* interleave.
C29_NoSourceWhileIdle == ~isRecording => ~microphone

\* ---- C23 ------------------------------------------------------------------
\* a step in which handleStopRecording runs: a click on the stop sign, the
\* interval at maxDuration, an error of the session, a final result with autoSend
StopStep ==
  \/ vev'.op \in {"stop", "interval", "error"}
  \/ vev'.op = "result" /\ vev'.arg # << >> /\ autoSend

\* C23: a stop leaves the component not recording and processing, with no
\* interval running, and with the timeout that ends the processing pending;
\* the component processes exactly as long as a timeout of a stop is pending,
\* so until the delay after the last stop has passed; and once it is idle it
\* stays idle until the next click on the microphone.
C23_StopThenProcessThenIdle ==
  [][ /\ StopStep =>
           /\ ~isRecording' /\ isProcessing'
           /\ ~recordingTimer'.held
           /\ \A lis \in BOOLEAN : intervals'[lis] = 0
           /\ (clock + processingDelay) \in processingTimers'
      /\ isProcessing' <=> processingTimers' # {}
      /\ (~isRecording /\ ~isProcessing /\ vev'.op # "start") =>
           (~isRecording' /\ ~isProcessing')
    ]_vars

\* ---- C24 ------------------------------------------------------------------
\* C24: a result event with final text calls onTranscript once, with that text
\* and confidence, and an event without final text calls it not at all; with
\* autoSend the delivery stops the recording, and one recording delivers at most
\* one final transcript.
C24_OneTranscriptPerUtterance ==
  [][ /\ vev'.op = "result" =>
           /\ delivered' = delivered + (IF FinalText(sev'.arg) # << >> THEN 1 ELSE 0)
           /\ FinalText(sev'.arg) # << >> =>
                /\ vev'.arg = << FinalText(sev'.arg), MaxConfidence(sev'.arg) >>
                /\ autoSend => ~isRecording'
      /\ vev'.op # "result" => delivered' \in {delivered, 0}
      /\ autoSend => delivered' <= 1
    ]_vars

\* ---- C22 ------------------------------------------------------------------
\* C22: a click on the microphone starts nothing (the recording flag is not
\* set, no engine is started, no acquisition and no interval begins, the start
\* time stays) while a recording is in progress, while speech recognition is
\* not supported, and while the processing state after a stop lasts.
C22_StartIsNoOp ==
  [][ (vev'.op = "start" /\ (isRecording \/ ~isSupported \/ isProcessing)) =>
        /\ isRecording' = isRecording
        /\ isProcessing' = isProcessing
        /\ Listening(engine') \subseteq Listening(engine)
        /\ acquiring' = acquiring
        /\ intervals' = intervals
        /\ recordingStartTime' = recordingStartTime
    ]_vars



\* ---- C31 ------------------------------------------------------------------
\* the sockets the client created that are connecting or open
Live(sk) == {s \in Sockets : sk[s] \in {"CONNECTING", "OPEN"}}

\* C31 as claimed: at most one socket the client created is connecting or open
\* at any time, and isConnected is true only while the socket wsRef.current
\* holds is open.
C31_OneLiveSocket ==
  /\ Cardinality(Live(sock)) <= 1
  /\ isConnected => IsOpen(St)


\* ---- C32 ------------------------------------------------------------------
\* automatic reconnects since the last open event: those made, and the one the
\* pending timer of ws.onclose is about to make
AutoReconnects == autos + (IF reconnectTimeoutRef = "pending" THEN 1 ELSE 0)

\* C32 as claimed: the attempt counter is always between 0 and max attempts,
\* and between two open events at most max attempts automatic reconnects are
\* made.
C32_BoundedReconnects ==
  /\ reconnectCountRef \in 0..reconnectAttempts
  /\ AutoReconnects <= reconnectAttempts

\* the first half of C32 alone
C32_CounterInRange == reconnectCountRef \in 0..reconnectAttempts


\* ---- C33 ------------------------------------------------------------------
\* the places of the frames of a type among the frames handed to a socket
FramesOfType(frames, type) == {i \in 1..Len(frames) : frames[i][2] = type}

\* C33 as claimed, at the step where it is decided: nothing was transmitted on
\* a socket before its open event, so every chat_message the open event hands
\* to the socket that opened comes after a join_room handed to it.
C33_JoinBeforeChat ==
  [][ev'.op = "open" =>
       \A s \in Sockets :
         \A i \in FramesOfType(wire'[s], "chat_message") :
           \E j \in FramesOfType(wire'[s], "join_room") : j < i]_vars


\* ---- C34 ------------------------------------------------------------------
\* C34 as claimed: every append to the transcript, of an inbound chat message
\* or of a message of the user, leaves the stored history equal to the
\* transcript.
C34_HistoryIsTranscript ==
  [][(ev'.op \in {"message", "send"} /\ messages' # messages) =>
       /\ lsHistory'.kind = "json"
       /\ lsHistory'.value = messages']_vars


\* ---- C35 ------------------------------------------------------------------
\* C35 as claimed: stopListening() in the gap between the end event that left
\* the session idle with the restart timer scheduled and the firing of that
\* timer cancels the restart: no restart timer is pending afterwards.
C35_StopInGapCancelsRestart ==
  [][(/\ sev'.op = "stop"
      /\ timeoutRef = "pending" /\ SpeechPending = 1
      /\ ~isListening /\ Active = {}
      /\ srendered.isListening = isListening) =>
       SpeechPending' = 0]_vars


\* ---- C36 ------------------------------------------------------------------
\* C36 as claimed: while the component is not recording no interval of the
\* recording timer runs.
C36_NoTimerWhileIdle ==
  ~isRecording => \A lis \in BOOLEAN : intervals[lis] = 0


\* ---- C37 ------------------------------------------------------------------
\* C37 as claimed: the component never records and processes at once, it
\* processes only while a timeout of a stop is pending, and a timeout ends the
\* processing only when the delay has passed since the latest stop.
C37_RecordingXorProcessing ==
  [][/\ ~(isRecording' /\ isProcessing')
     /\ isProcessing' => processingTimers' # {}
     /\ vev'.op = "timeout" => \A due \in processingTimers : due <= clock]_vars


\* ---- C38 ------------------------------------------------------------------
\* C38 as claimed: while the channel is connected, the render that follows a
\* change of the page's own state (a keystroke, a transcript of the voice
\* input, a change of the settings) closes no socket and opens none.
C38_RenderKeepsSocket ==
  [][(/\ ev'.op = "render"
      /\ pev.op \in {"type", "voice", "settings"} /\ stale
      /\ isConnected /\ IsOpen(St)) =>
       /\ sock' = sock
       /\ wsRef' = wsRef
       /\ isConnected']_vars

\* ---- SpeechErrorHandler (components/SpeechErrorHandler.tsx) -------------------
\* the component is rendered by VoiceInput with the props error, isSupported,
\* isListening and onRetry = startListening of the speech hook (VoiceInput.tsx
\* 287-293): the props are the values of the hook's last render

\* the error codes of the engine the session is given here: those of ErrorKinds
\* and the code of a refused microphone permission
HandlerCodes == ErrorKinds \cup {"not-allowed"}

\* the words of an error text of the hook (643-645, 672, 685, 693), split at
\* blanks and hyphens
Spelling(errorMessage) ==
  CASE errorMessage = RecognitionError("network") ->
         << "Speech", "recognition", "error:", "network" >>
    [] errorMessage = RecognitionError("service-not-allowed") ->
         << "Speech", "recognition", "error:", "service", "not", "allowed" >>
    [] errorMessage = RecognitionError("not-allowed") ->
         << "Speech", "recognition", "error:", "not", "allowed" >>
    [] errorMessage = RecognitionError("no-speech") ->
         << "Speech", "recognition", "error:", "no", "speech" >>
    [] errorMessage = UnsupportedBrowser ->
         << "Speech", "recognition", "is", "not", "supported", "in", "this", "browser" >>
    [] errorMessage = UnsupportedStart ->
         << "Speech", "recognition", "is", "not", "supported" >>
    [] errorMessage = StartFailed ->
         << "Failed", "to", "start", "speech", "recognition" >>
    [] OTHER -> << >>

\* String.prototype.toLowerCase, word by word
toLowerCase(words) ==
  [i \in DOMAIN words |->
     CASE words[i] = "Speech" -> "speech"
       [] words[i] = "Failed" -> "failed"
       [] OTHER -> words[i]]

\* String.prototype.includes: no keyword of parseSpeechError is a part of a
\* longer word of these texts, so a keyword is included when it is a word
includes(lowerError, keyword) == \E i \in DOMAIN lowerError : lowerError[i] = keyword

\* SpeechErrorHandler.tsx 44-89
parseSpeechError(errorMessage) ==
  LET lowerError == toLowerCase(Spelling(errorMessage))
  IN IF includes(lowerError, "permission") \/ includes(lowerError, "denied")
        \/ includes(lowerError, "allowed")
       THEN [type |-> "permission", canRetry |-> FALSE,
             message |-> "Microphone access denied",
             suggestion |-> "Please allow microphone access in your browser settings and refresh the page."]
     ELSE IF includes(lowerError, "network") \/ includes(lowerError, "connection")
       THEN [type |-> "network", canRetry |-> TRUE,
             message |-> "Network connection issue",
             suggestion |-> "Check your internet connection and try again."]
     ELSE IF includes(lowerError, "service") \/ includes(lowerError, "unavailable")
       THEN [type |-> "service", canRetry |-> TRUE,
             message |-> "Speech recognition service unavailable",
             suggestion |-> "The speech recognition service is temporarily unavailable. Please try again later."]
     ELSE IF includes(lowerError, "hardware") \/ includes(lowerError, "device")
             \/ includes(lowerError, "microphone")
       THEN [type |-> "hardware", canRetry |-> TRUE,
             message |-> "Microphone not found",
             suggestion |-> "Please ensure a microphone is connected and working properly."]
     ELSE [type |-> "unknown", canRetry |-> TRUE,
           message |-> "Speech recognition error",
           suggestion |-> "An unexpected error occurred. Please try again or check your browser settings."]

\* what the effect of lines 35-42 sets for the props of the last render
DetailsFor(err, dis) ==
  IF err # NoError /\ ~dis THEN parseSpeechError(err) ELSE NoDetails

\* the panel with the message is on the page (130-157)
PanelShown == srendered.isSupported /\ errorDetails # NoDetails /\ ~dismissed

\* the Retry button is on the page and enabled (189-199)
RetryOffered == PanelShown /\ errorDetails.canRetry /\ ~srendered.isListening

HKeep == UNCHANGED << channelVars, chatVars, voiceVars, pageVars, boundaryVars >>

\* the effect of lines 35-42, which runs after a render in which error or
\* dismissed changed
HandlerEffect ==
  /\ smounted /\ SIdle
  /\ errorDetails # DetailsFor(srendered.error, dismissed)
  /\ errorDetails' = DetailsFor(srendered.error, dismissed)
  /\ sev' = [op |-> "effect", arg |-> 0]
  /\ UNCHANGED << dismissed, supported, inline, srendered, smounted, scalls, halted >>
  /\ SpeechCommit(Sp)
  /\ HKeep

\* handleDismiss (91-93)
HandleDismiss ==
  /\ smounted /\ SIdle
  /\ PanelShown
  /\ dismissed' = TRUE
  /\ sev' = [op |-> "dismiss", arg |-> 0]
  /\ UNCHANGED << errorDetails, supported, inline, srendered, smounted, scalls, halted >>
  /\ SpeechCommit(Sp)
  /\ HKeep

\* handleRetry (95-98): onRetry is the startListening of the last render
SpeechHandleRetry ==
  /\ smounted /\ SIdle
  /\ RetryOffered
  /\ scalls < MaxSpeechCalls
  /\ scalls' = scalls + 1
  /\ dismissed' = FALSE
  /\ SpeechCommit(startListening(Sp, srendered.isSupported))
  /\ halted' = "no"
  /\ sev' = [op |-> "retry", arg |-> 0]
  /\ UNCHANGED << errorDetails, supported, inline, srendered, smounted >>
  /\ HKeep

\* the speech session with its error panel
HandlerNext ==
  \/ SpeechMount
  \/ SpeechRender
  \/ StartListening
  \/ StopListening
  \/ \E e \in Engines : EngineStart(e)
  \/ \E e \in Engines, kind \in HandlerCodes : EngineError(e, kind)
  \/ \E e \in Engines : EngineEnd(e)
  \/ RestartFires
  \/ \E sup \in BOOLEAN : LooseRestartFires(sup)
  \/ HandlerEffect
  \/ HandleDismiss
  \/ SpeechHandleRetry

HandlerSpec == SessionInit /\ [][HandlerNext]_vars

\* ---- C39 ---------------------------------------------------------------------
\* the error the panel was computed from is the refused microphone permission
PermissionDenial(err) == err = RecognitionError("not-allowed")

\* C39 as claimed: whenever the effect of the error panel classifies an error of
\* the session, the result is non-retryable if and only if the error is a
\* microphone permission denial, and it carries a message and a suggestion: every
\* other engine error, the causes the session restarts on included, is retryable
C39_OnlyPermissionNonRetryable ==
  [][(sev'.op = "effect" /\ errorDetails' # NoDetails) =>
       /\ errorDetails'.canRetry <=> ~PermissionDenial(srendered.error)
       /\ errorDetails'.message # ""
       /\ errorDetails'.suggestion # ""]_vars

\* C39 for the causes other than service-not-allowed
C39_OthersClassified ==
  [][(sev'.op = "effect" /\ errorDetails' # NoDetails
      /\ srendered.error # RecognitionError("service-not-allowed")) =>
       /\ errorDetails'.canRetry <=> ~PermissionDenial(srendered.error)
       /\ errorDetails'.message # ""
       /\ errorDetails'.suggestion # ""]_vars

\* the panel of a refused permission offers no retry
C39_DenialShown ==
  PanelShown /\ PermissionDenial(srendered.error) /\ ~errorDetails.canRetry

====
